---- MODULE Spec2Model ----
(***************************************************************************)
(* A model of the data-fusion and traversal pipeline of anki-hanja-scraper *)
(*   fetch_word_data      src/src/components/word.py                       *)
(*   merge_list_of_dicts  src/src/components/input.py                      *)
(*   apply_modifiers      src/src/components/input.py                      *)
(*   create_anki_tags     src/src/utils/anki_utils.py                      *)
(*   process_txt_file     src/src/components/input.py                      *)
(*   scrape_hanja         src/src/components/hanja.py                      *)
(*   scrape_word          src/src/components/word.py                       *)
(*   arrange_dict_order   src/src/components/input.py                      *)
(*   hanja_to_url         src/src/utils/hanja_tool.py                      *)
(*   SeleniumDriver       src/src/utils/selenium_driver.py                 *)
(*   SQLiteDB             src/src/utils/sqlite_utils.py                    *)
(* Each component has its own specification over its own variables; the    *)
(* variables of the other components stay at their idle values.            *)
(*                                                                         *)
(* Texts that the code inspects character by character (endswith, split)   *)
(* are sequences of one-character strings.  Korean literals are written    *)
(* with Latin letters.                                                     *)
(***************************************************************************)
EXTENDS Integers, Sequences, FiniteSets, TLC

VARIABLES
    \* ---- fetch_word_data
    detail,              \* the Content Source: id -> page, decided at the first fetch
    pending_ids,         \* the frontier (a Python list used as a stack)
    mean_list,           \* meanings collected so far
    example_list,        \* examples collected so far
    is_meaning_fetched,  \* the capture flag
    meaning,             \* the local variable `meaning` (Unbound until first assigned)
    tpc,                 \* "idle" | "loop" | "done" | "raised"
    visits,              \* history: the ids popped, in order (the first MaxVisits)
    pushes,              \* history: id -> number of times appended to pending_ids
    turn,                \* history: the number of loop iterations so far, modulo 2
    \* ---- merge_list_of_dicts
    heap,                \* the dict objects: heap[ref] is the dict of object ref
    data1,               \* the first argument: a list of references to dicts
    data2,               \* the second argument
    merged_list,         \* the returned list of references
    given1,              \* history: the dicts of data1 as they were at the call
    fpc,                 \* "idle" | "call" | "done" | "raised"
    \* ---- apply_modifiers
    mdata,               \* the working collection `data`: a list of dicts
    modifiers,           \* the argument `modifiers`
    midx,                \* the position of the next modifier of the for loop
    entry,               \* the local `entry`: 0 while unassigned, else the position it was bound at
    mlog,                \* history: one record per modifier started, with data before and after
    mpc,                 \* "idle" | "run" | "done" | "raised"
    \* ---- create_anki_tags
    tdata,               \* the argument `data`: a list of dicts, tagged in place
    tag_template,        \* the argument `tag_template`
    values,              \* the argument `values`
    tidx,                \* the position of the next entry of the for loop
    gpc,                 \* "idle" | "run" | "done" | "raised"
    \* ---- process_txt_file
    content,             \* the text read from the file
    patterns,            \* the argument `patterns`
    chunks,              \* content.split(delimiter)
    cidx,                \* the position of the next chunk of the for loop
    processed_data,      \* the records extracted so far
    xerr,                \* the exception the call ended with, NoError if none
    xpc,                 \* "idle" | "run" | "done" | "raised"
    \* ---- scrape_hanja
    hanja_list,          \* the queries
    results,             \* the tuples appended so far
    hidx,                \* the position of the next query of the for loop
    hlog,                \* history: the pages the source answered each query with
    herr,                \* the exception the call ended with, "" if none
    hpc,                 \* "idle" | "run" | "done" | "raised"
    \* ---- scrape_word
    word_list,           \* the argument `word_list`
    word_data,           \* the items appended so far
    widx,                \* the position of the next word of the for loop
    wlog,                \* history: the words attempted, in order
    werr,                \* the exception the call ended with, "" if none
    wpc,                 \* "idle" | "run" | "done" | "raised"
    \* ---- arrange_dict_order
    pdata,               \* the argument `data`
    key_order,           \* the argument `key_order`
    pidx,                \* the position of the next entry of the for loop
    arranged_data,       \* the dicts appended so far
    ppc,                 \* "idle" | "run" | "done"
    \* ---- hanja_to_url
    hanja_text,          \* the argument `hanja_text`
    length,              \* the argument `length`
    url_encoded,         \* the text returned
    upc,                 \* "idle" | "call" | "done" | "raised"
    \* ---- SeleniumDriver
    with_depth,          \* the attribute `_with_depth` of the session
    scopes,              \* the with-scopes active on the session, outermost first
    events,              \* history: "enter", "exit", "raise" (exit by exception), "quit"
    dpc,                 \* "idle" | "run" | "done"
    \* ---- SQLiteDB
    connections,         \* the attribute `connections`: the connections tracked
    db_scopes,           \* the with-scopes active on the object: the connection each was given
    conn_log,            \* history: one record per connection opened
    qpc                  \* "idle" | "run"

travVars == <<detail, pending_ids, mean_list, example_list, is_meaning_fetched,
              meaning, tpc, visits, pushes, turn>>

fuseVars == <<heap, data1, data2, merged_list, given1, fpc>>

modVars == <<mdata, modifiers, midx, entry, mlog, mpc>>

tagVars == <<tdata, tag_template, values, tidx, gpc>>

extVars == <<content, patterns, chunks, cidx, processed_data, xerr, xpc>>

hanjaVars == <<hanja_list, results, hidx, hlog, herr, hpc>>

wordVars == <<word_list, word_data, widx, wlog, werr, wpc>>

arrangeVars == <<pdata, key_order, pidx, arranged_data, ppc>>

encodeVars == <<hanja_text, length, url_encoded, upc>>

driverVars == <<with_depth, scopes, events, dpc>>

dbVars == <<connections, db_scopes, conn_log, qpc>>

vars == <<travVars, fuseVars, modVars, tagVars, extVars, hanjaVars, wordVars,
          arrangeVars, encodeVars, driverVars, dbVars>>

\* the variables of the other components, which a component's actions leave alone
notTravVars ==
    <<fuseVars, modVars, tagVars, extVars, hanjaVars, wordVars, arrangeVars,
      encodeVars, driverVars, dbVars>>
notFuseVars ==
    <<travVars, modVars, tagVars, extVars, hanjaVars, wordVars, arrangeVars,
      encodeVars, driverVars, dbVars>>
notModVars ==
    <<travVars, fuseVars, tagVars, extVars, hanjaVars, wordVars, arrangeVars,
      encodeVars, driverVars, dbVars>>
notTagVars ==
    <<travVars, fuseVars, modVars, extVars, hanjaVars, wordVars, arrangeVars,
      encodeVars, driverVars, dbVars>>
notExtVars ==
    <<travVars, fuseVars, modVars, tagVars, hanjaVars, wordVars, arrangeVars,
      encodeVars, driverVars, dbVars>>
notHanjaVars ==
    <<travVars, fuseVars, modVars, tagVars, extVars, wordVars, arrangeVars, encodeVars,
      driverVars, dbVars>>
notWordVars ==
    <<travVars, fuseVars, modVars, tagVars, extVars, hanjaVars, arrangeVars,
      encodeVars, driverVars, dbVars>>
notArrangeVars ==
    <<travVars, fuseVars, modVars, tagVars, extVars, hanjaVars, wordVars, encodeVars,
      driverVars, dbVars>>
notEncodeVars ==
    <<travVars, fuseVars, modVars, tagVars, extVars, hanjaVars, wordVars, arrangeVars,
      driverVars, dbVars>>
notDriverVars ==
    <<travVars, fuseVars, modVars, tagVars, extVars, hanjaVars, wordVars, arrangeVars,
      encodeVars, dbVars>>
notDbVars ==
    <<travVars, fuseVars, modVars, tagVars, extVars, hanjaVars, wordVars, arrangeVars,
      encodeVars, driverVars>>

-----------------------------------------------------------------------------
(* Generic helpers *)

Range(s) == {s[i] : i \in 1..Len(s)}

Last(s) == s[Len(s)]

Front(s) == SubSeq(s, 1, Len(s) - 1)

Min(a, b) == IF a <= b THEN a ELSE b

\* the observed prefix of an output list or history: appends beyond cap are not recorded
CapAppend(s, x, cap) == IF Len(s) < cap THEN Append(s, x) ELSE s

RECURSIVE CapConcat(_, _, _)
CapConcat(s, t, cap) ==
    IF t = <<>> THEN s ELSE CapConcat(CapAppend(s, Head(t), cap), Tail(t), cap)

-----------------------------------------------------------------------------
(* fetch_word_data: bounds and the Content Source *)

MaxVisits == 4   \* visits recorded in the history
MaxOut == 4      \* entries recorded in mean_list and example_list
MaxCount == 2    \* the push counters saturate here

Root == "r"
Ids == {"r", "a", "b"}

\* Values that are not texts; a text is a sequence of one-character strings
Unbound == <<"?Unbound">>     \* a local variable not assigned yet
None == <<"?None">>
NoTheme == <<"?NoTheme">>     \* no span.mean_addition under the meaning entry
NotFetched == [entry |-> "unfetched", subs |-> <<>>, items |-> <<>>]

\* etymon_sign = "의 어근." (5 characters)
etymon_sign == <<"U", " ", "E", "G", ".">>

\* str.endswith
EndsWith(s, suffix) ==
    /\ Len(s) >= Len(suffix)
    /\ SubSeq(s, Len(s) - Len(suffix) + 1, Len(s)) = suffix

\* len(str.split()): the number of maximal runs of non-blank characters
WordCount(s) ==
    Cardinality({i \in 1..Len(s) : s[i] # " " /\ (i = 1 \/ s[i - 1] = " ")})

\* line 22 with strict comparisons
filter_by_word_length_Exclusive(input_word, min_length, max_length) ==
    IF min_length < WordCount(input_word) /\ WordCount(input_word) < max_length
    THEN input_word
    ELSE None

\* filter_by_word_length on a string: the string itself, or None
filter_by_word_length(input_word, min_length, max_length) ==
    IF min_length <= WordCount(input_word) /\ WordCount(input_word) <= max_length
    THEN input_word
    ELSE None

\* Texts a page of node n may hold
PlainMean(n) == <<"m", n>>
EtymonMean(n) == <<n>> \o etymon_sign
Theme == <<"t">>
Words(k, n) == [i \in 1..(2 * k - 1) |-> IF i % 2 = 1 THEN n ELSE " "]

ContPlain(n) == [mean |-> PlainMean(n), theme |-> NoTheme]
ContThemed(n) == [mean |-> PlainMean(n), theme |-> Theme]
ContEtymon(n) == [mean |-> EtymonMean(n), theme |-> NoTheme]

\* li.mean_item elements: the meaning entries (.mean_desc .cont) and the examples
MeanItem(conts, examples) == [conts |-> conts, examples |-> examples]

\* ul.mean_list of the page of node n
ItemLists(n) ==
    { <<>>,
      << MeanItem(<<>>, <<Words(3, n)>>) >>,
      << MeanItem(<<ContEtymon(n)>>, <<Words(2, n), Words(9, n)>>) >>,
      << MeanItem(<<ContThemed(n), ContEtymon(n)>>, <<Words(10, n)>>) >>,
      << MeanItem(<<ContEtymon(n), ContPlain(n)>>, <<Words(3, n)>>),
         MeanItem(<<ContPlain(n)>>, <<Words(2, n)>>) >> }

\* dd a links of dl.entry_default: up to two links, which may name the same id
SubLists ==
    {<<>>} \cup {<<x>> : x \in Ids} \cup {<<p[1], p[2]>> : p \in Ids \X Ids}

\* dl.entry_default: absent, titled "파생어" (derived), or titled otherwise
Headers ==
    {[entry |-> "none", subs |-> <<>>], [entry |-> "other", subs |-> <<Root>>]}
    \cup {[entry |-> "derived", subs |-> s] : s \in SubLists}

Pages(n) ==
    {[entry |-> h.entry, subs |-> h.subs, items |-> it] : h \in Headers, it \in ItemLists(n)}

-----------------------------------------------------------------------------
(* fetch_word_data: the loop body *)

\* lines 144-147 without the test of line 146
PushSubs_Unchecked(pending, subs) == pending \o subs

\* lines 144-147: append each sub id that is not in pending_ids now
RECURSIVE PushSubs(_, _)
PushSubs(pending, subs) ==
    IF subs = <<>> THEN pending
    ELSE PushSubs(IF Head(subs) \in Range(pending) THEN pending
                  ELSE Append(pending, Head(subs)),
                  Tail(subs))

\* lines 136-150: sub-items are read only under a "파생어" header
AfterSubs(pending, page) ==
    IF page.entry = "derived" THEN PushSubs(pending, page.subs) ELSE pending

\* lines 163-185 without the test of line 171: every entry is appended
RECURSIVE ScanConts_KeepSentinel(_, _)
ScanConts_KeepSentinel(st, conts) ==
    IF conts = <<>> THEN st
    ELSE LET c == Head(conts)
             text == IF c.theme = NoTheme THEN c.mean
                     ELSE <<"[">> \o c.theme \o <<"]", " ">> \o c.mean
         IN  ScanConts_KeepSentinel([ml |-> CapAppend(st.ml, text, MaxOut), m |-> text],
                                    Tail(conts))

\* lines 163-185: the meaning entries of one mean_item; st = [ml, m]
RECURSIVE ScanConts(_, _)
ScanConts(st, conts) ==
    IF conts = <<>> THEN st
    ELSE LET c == Head(conts)
             text == IF c.theme = NoTheme THEN c.mean
                     ELSE <<"[">> \o c.theme \o <<"]", " ">> \o c.mean
         IN  IF EndsWith(c.mean, etymon_sign)
             THEN ScanConts([ml |-> st.ml, m |-> None], Tail(conts))
             ELSE ScanConts([ml |-> CapAppend(st.ml, text, MaxOut), m |-> text],
                            Tail(conts))

\* lines 192-202: the examples of one mean_item that pass the length filter
RECURSIVE ScanExamples(_, _)
ScanExamples(el, examples) ==
    IF examples = <<>> THEN el
    ELSE LET example == filter_by_word_length(Head(examples), 3, 9)
         IN  ScanExamples(IF example # None /\ example # <<>>
                          THEN CapAppend(el, example, MaxOut) ELSE el,
                          Tail(examples))

\* lines 157-202: every mean_item of the page; st = [ml, el, m]
RECURSIVE ScanItems(_, _, _)
ScanItems(st, items, fetched) ==
    IF items = <<>> THEN st
    ELSE LET it == Head(items)
             mc == IF fetched THEN [ml |-> st.ml, m |-> st.m]
                   ELSE ScanConts([ml |-> st.ml, m |-> st.m], it.conts)
         IN  ScanItems([ml |-> mc.ml, el |-> ScanExamples(st.el, it.examples), m |-> mc.m],
                       Tail(items), fetched)

\* line 204: the truth value of `meaning` (None and "" are false)
Truthy(m) == m # None /\ m # <<>>

TravIdle ==
    /\ detail = [n \in Ids |-> NotFetched]
    /\ pending_ids = <<>>
    /\ mean_list = <<>>
    /\ example_list = <<>>
    /\ is_meaning_fetched = FALSE
    /\ meaning = Unbound
    /\ tpc = "idle"
    /\ visits = <<>>
    /\ pushes = [n \in Ids |-> 0]
    /\ turn = 0

TravInit ==
    /\ detail = [n \in Ids |-> NotFetched]
    /\ pending_ids = <<Root>>
    /\ mean_list = <<>>
    /\ example_list = <<>>
    /\ is_meaning_fetched = FALSE
    /\ meaning = Unbound
    /\ tpc = "loop"
    /\ visits = <<>>
    /\ pushes = [n \in Ids |-> IF n = Root THEN 1 ELSE 0]
    /\ turn = 0

\* one iteration of the while loop (lines 130-205)
VisitNode ==
    /\ tpc = "loop"
    /\ pending_ids # <<>>
    /\ LET word_id == Last(pending_ids)
           popped == Front(pending_ids)
       IN  \E page \in Pages(word_id) :
             /\ detail[word_id] \in {NotFetched, page}
             /\ detail' = [detail EXCEPT ![word_id] = page]
             /\ LET pend == AfterSubs(popped, page)
                    st == ScanItems([ml |-> mean_list, el |-> example_list, m |-> meaning],
                                    page.items, is_meaning_fetched)
                IN  /\ pending_ids' = pend
                    /\ mean_list' = st.ml
                    /\ example_list' = st.el
                    /\ meaning' = st.m
                    /\ visits' = CapAppend(visits, word_id, MaxVisits)
                    /\ turn' = 1 - turn
                    /\ pushes' = [n \in Ids |->
                                    IF n \in Range(pend) \ Range(popped)
                                    THEN Min(pushes[n] + 1, MaxCount) ELSE pushes[n]]
                    \* line 204: reading an unassigned local raises UnboundLocalError
                    /\ IF st.m = Unbound
                       THEN /\ tpc' = "raised"
                            /\ UNCHANGED is_meaning_fetched
                       ELSE /\ tpc' = "loop"
                            /\ is_meaning_fetched' = (is_meaning_fetched \/ Truthy(st.m))
    /\ UNCHANGED notTravVars

\* line 207: the loop ends and the result is returned
TravReturn ==
    /\ tpc = "loop"
    /\ pending_ids = <<>>
    /\ tpc' = "done"
    /\ UNCHANGED <<detail, pending_ids, mean_list, example_list, is_meaning_fetched,
                   meaning, visits, pushes, turn>>
    /\ UNCHANGED notTravVars

-----------------------------------------------------------------------------
(* merge_list_of_dicts: dicts, and the records the call is given *)

MaxRecs == 2     \* records in data1 and in data2

\* A Python dict: a sequence of [key, value] entries with distinct keys, in
\* insertion order.  A value is a string or a list of strings.
Str(x) == [kind |-> "str", items |-> <<x>>]
List(xs) == [kind |-> "list", items |-> xs]

DictKeys(d) == {d[i].key : i \in 1..Len(d)}

DictGet(d, k) == d[CHOOSE i \in 1..Len(d) : d[i].key = k].value

\* d[k] = v: replaces the value of an existing key, appends a new key
DictSet(d, k, v) ==
    IF k \in DictKeys(d)
    THEN [i \in 1..Len(d) |-> IF d[i].key = k THEN [key |-> k, value |-> v] ELSE d[i]]
    ELSE Append(d, [key |-> k, value |-> v])

\* all sequences over S of length 0..n
SeqsUpTo(S, n) == UNION {[1..k -> S] : k \in 0..n}

Opt(k, vals) == {<<>>} \cup {<<[key |-> k, value |-> v]>> : v \in vals}

\* records as the extraction yields them: a scalar field and a field that may be a list
InputRecords ==
    {h \o w : h \in Opt("hanja", {Str("in")}),
              w \in Opt("words", {Str("in"), List(<<>>), List(<<"w1">>), List(<<"w1", "w2">>)})}

\* records as the scraper yields them
SourceRecords ==
    {h \o w : h \in Opt("hanja", {Str("src")}), w \in Opt("words", {Str("src")})}

FuseIdle ==
    /\ heap = <<>>
    /\ data1 = <<>>
    /\ data2 = <<>>
    /\ merged_list = <<>>
    /\ given1 = <<>>
    /\ fpc = "idle"

FuseInit ==
    \E d1 \in SeqsUpTo(InputRecords, MaxRecs), d2 \in SeqsUpTo(SourceRecords, MaxRecs) :
        /\ heap = d1 \o d2
        /\ data1 = [i \in 1..Len(d1) |-> i]
        /\ data2 = [i \in 1..Len(d2) |-> Len(d1) + i]
        /\ merged_list = <<>>
        /\ given1 = d1
        /\ fpc = "call"

-----------------------------------------------------------------------------
(* merge_list_of_dicts: the call *)

\* mutant: merged_dict = entry1, no copy
DictCopy_Alias(h, ref) == [heap |-> h, ref |-> ref]

\* line 156, entry1.copy(): a new dict object with the entries of entry1
DictCopy(h, ref) == [heap |-> Append(h, h[ref]), ref |-> Len(h) + 1]

\* mutant: the source's value is taken whatever the input holds
MergeValue_SourceWins(d, key, value) == [raised |-> FALSE, value |-> value]

\* lines 159-165: the value merged_dict[key] gets; IndexError on an empty list
MergeValue(d, key, value) ==
    IF key \in DictKeys(d) /\ DictGet(d, key).kind = "list"
    THEN IF DictGet(d, key).items = <<>>
         THEN [raised |-> TRUE, value |-> value]
         ELSE [raised |-> FALSE, value |-> Str(DictGet(d, key).items[1])]
    ELSE [raised |-> FALSE, value |-> value]

\* lines 158-165: for key, value in entry2.items(), on the object ref of heap h
RECURSIVE MergeItems(_, _, _)
MergeItems(h, ref, items) ==
    IF items = <<>> THEN [raised |-> FALSE, heap |-> h]
    ELSE LET mv == MergeValue(h[ref], Head(items).key, Head(items).value)
         IN  IF mv.raised THEN [raised |-> TRUE, heap |-> h]
             ELSE MergeItems([h EXCEPT ![ref] = DictSet(h[ref], Head(items).key, mv.value)],
                             ref, Tail(items))

\* lines 155-166: for entry1, entry2 in zip(data1, data2), from pair i on
RECURSIVE MergePairs(_, _, _)
MergePairs(h, out, i) ==
    IF i > Min(Len(data1), Len(data2)) THEN [raised |-> FALSE, heap |-> h, out |-> out]
    ELSE LET c == DictCopy(h, data1[i])
             m == MergeItems(c.heap, c.ref, h[data2[i]])
         IN  IF m.raised THEN [raised |-> TRUE, heap |-> m.heap, out |-> out]
             ELSE MergePairs(m.heap, Append(out, c.ref), i + 1)

\* merge_list_of_dicts(data1, data2), lines 142-168
MergeCall ==
    /\ fpc = "call"
    /\ LET r == MergePairs(heap, <<>>, 1)
       IN  /\ heap' = r.heap
           /\ merged_list' = IF r.raised THEN <<>> ELSE r.out
           /\ fpc' = IF r.raised THEN "raised" ELSE "done"
    /\ UNCHANGED <<data1, data2, given1>>
    /\ UNCHANGED notFuseVars

-----------------------------------------------------------------------------
(* apply_modifiers: the records and the modifiers the call is given *)

MaxData == 2     \* records in data
MaxMods == 3     \* modifiers in the list

\* records with and without the column the scoped modifiers name
ModRecords ==
    {<<[key |-> "hanja", value |-> Str("h")]>> \o r :
        r \in Opt("rank", {Str("1"), Str("x")})}

\* A modifier: a callable, or a tuple of `size` elements whose first two are
\* (func, column).  The functions stand for the caller's Python callables:
\*   swap      total on strings
\*   strict    raises on the value "x" (as int("x") does)
\*   reversed  a whole-collection function that never raises
\*   validate  a whole-collection function that raises when a record has rank "x"
Callable(f) == [tuple |-> FALSE, size |-> 0, func |-> f, column |-> ""]
Tuple(n, f, c) == [tuple |-> TRUE, size |-> n, func |-> f, column |-> c]

Modifiers ==
    {Callable("reversed"), Callable("validate"),
     Tuple(2, "swap", "rank"), Tuple(2, "strict", "rank"),
     Tuple(1, "swap", ""), Tuple(3, "swap", "rank")}

\* func(value) of a scoped modifier
CallFunc(f, v) ==
    CASE f = "swap" ->
           [raised |-> FALSE,
            value |-> IF v = Str("1") THEN Str("2") ELSE IF v = Str("2") THEN Str("1") ELSE v]
      [] f = "strict" ->
           [raised |-> v = Str("x"), value |-> Str("2")]

Reverse(s) == [i \in 1..Len(s) |-> s[Len(s) + 1 - i]]

\* modifier(data) of a whole-collection modifier
CallWhole(f, d) ==
    CASE f = "reversed" -> [raised |-> FALSE, data |-> Reverse(d), on |-> 0]
      [] f = "validate" ->
           LET bad == {i \in 1..Len(d) :
                          "rank" \in DictKeys(d[i]) /\ DictGet(d[i], "rank") = Str("x")}
           IN  [raised |-> bad # {}, data |-> d,
                on |-> IF bad = {} THEN 0 ELSE CHOOSE i \in bad : \A j \in bad : i <= j]

ModIdle ==
    /\ mdata = <<>>
    /\ modifiers = <<>>
    /\ midx = 0
    /\ entry = 0
    /\ mlog = <<>>
    /\ mpc = "idle"

ModInit ==
    /\ mdata \in SeqsUpTo(ModRecords, MaxData)
    /\ modifiers \in SeqsUpTo(Modifiers, MaxMods)
    /\ midx = 1
    /\ entry = 0
    /\ mlog = <<>>
    /\ mpc = "run"

-----------------------------------------------------------------------------
(* apply_modifiers: one modifier *)

\* lines 127-129: for entry in data, from position i on; the records written so
\* far stay written when func raises.  `on` is the record func raised on and
\* `reached` the number of records the loop got to.
RECURSIVE ApplyScoped(_, _, _, _, _)
ApplyScoped(d, f, column, i, e) ==
    IF i > Len(d) THEN [raised |-> FALSE, data |-> d, entry |-> e, on |-> 0, reached |-> Len(d)]
    ELSE IF column \notin DictKeys(d[i]) THEN ApplyScoped(d, f, column, i + 1, i)
    ELSE LET r == CallFunc(f, DictGet(d[i], column))
         IN  IF r.raised
             THEN [raised |-> TRUE, data |-> d, entry |-> i, on |-> i, reached |-> i]
             ELSE ApplyScoped([d EXCEPT ![i] = DictSet(d[i], column, r.value)],
                              f, column, i + 1, i)

\* lines 122-132 with line 132 as a bare call: the result is not assigned to data
TryModifier_KeepsData(d, m, e) ==
    IF m.tuple
    THEN IF m.size # 2
         THEN [raised |-> TRUE, data |-> d, entry |-> e, on |-> 0, reached |-> 0]
         ELSE ApplyScoped(d, m.func, m.column, 1, e)
    ELSE LET r == CallWhole(m.func, d)
         IN  [raised |-> r.raised, data |-> d, entry |-> e, on |-> r.on, reached |-> Len(d)]

\* lines 122-132: the body of the try statement for one modifier
TryModifier(d, m, e) ==
    IF m.tuple
    THEN IF m.size # 2
         THEN \* func, column = modifier raises ValueError
              [raised |-> TRUE, data |-> d, entry |-> e, on |-> 0, reached |-> 0]
         ELSE ApplyScoped(d, m.func, m.column, 1, e)
    ELSE LET r == CallWhole(m.func, d)
         IN  [raised |-> r.raised, data |-> IF r.raised THEN d ELSE r.data, entry |-> e,
              on |-> r.on, reached |-> Len(d)]

\* lines 133-137: the handler logs the modifier, then `entry`; reading `entry`
\* while it is unassigned raises UnboundLocalError out of the handler
HandlerRaises(e) == e = 0

\* one iteration of the for loop (lines 121-137)
ApplyModifier ==
    /\ mpc = "run"
    /\ midx <= Len(modifiers)
    /\ LET r == TryModifier(mdata, modifiers[midx], entry)
       IN  /\ mdata' = r.data
           /\ entry' = r.entry
           /\ mlog' = Append(mlog, [raised |-> r.raised, on |-> r.on, reached |-> r.reached,
                                    before |-> mdata, after |-> r.data])
           /\ midx' = midx + 1
           /\ mpc' = IF r.raised /\ HandlerRaises(r.entry) THEN "raised" ELSE "run"
    /\ UNCHANGED modifiers
    /\ UNCHANGED notModVars

\* lines 118-119 and 139: return data
ModReturn ==
    /\ mpc = "run"
    /\ midx > Len(modifiers)
    /\ mpc' = "done"
    /\ UNCHANGED <<mdata, modifiers, midx, entry, mlog>>
    /\ UNCHANGED notModVars

-----------------------------------------------------------------------------
(* create_anki_tags and create_hierarchy_instance, src/src/utils/anki_utils.py *)
(* Strings are sequences of one-character strings; a dict is a sequence of    *)
(* [key, value] whose keys and values are such strings.                       *)

MaxEntries == 2

\* delimiter="::" (line 39)
delimiter == <<":", ":">>

\* ---- the literal structure that ast.literal_eval returns (line 54)
\* t is "dict", "list" or "str"; a dict has keys and items (its values) in
\* insertion order, a list has items, a str has text.  `raises` says that
\* building the value raises TypeError: a dict display has a list or a dict as
\* a key (unhashable), here or in a value under it.
StrNode(cs) == [t |-> "str", text |-> cs, keys |-> <<>>, items |-> <<>>, raises |-> FALSE]
ListNode(xs) ==
    [t |-> "list", text |-> <<>>, keys |-> <<>>, items |-> xs,
     raises |-> \E i \in 1..Len(xs) : xs[i].raises]
DictNode(ks, vs) ==
    [t |-> "dict", text |-> <<>>, keys |-> ks, items |-> vs,
     raises |-> \E i \in 1..Len(vs) : vs[i].raises]
EmptyDict == DictNode(<<>>, <<>>)

\* ---- ast.literal_eval (line 54) on the literals the templates can produce:
\* dicts, lists and single-quoted strings without escapes, blanks between
\* tokens, a trailing comma, adjacent strings concatenated.
\* A result with ok = FALSE is the SyntaxError or ValueError of line 55; the
\* TypeError of an unhashable key is raised only when the whole string is a
\* well-formed display, and line 55 does not catch it.
Parsed(n, p) == [ok |-> TRUE, node |-> n, pos |-> p]
ParseError == [ok |-> FALSE, node |-> EmptyDict, pos |-> 0]

\* the character at p, "" past the end
At(s, p) == IF p <= Len(s) THEN s[p] ELSE ""

RECURSIVE SkipBlanks(_, _)
SkipBlanks(s, p) == IF At(s, p) = " " THEN SkipBlanks(s, p + 1) ELSE p

\* the position of the first quote at or after p, 0 if there is none
RECURSIVE QuoteFrom(_, _)
QuoteFrom(s, p) ==
    IF p > Len(s) THEN 0
    ELSE IF s[p] = "'" THEN p
    ELSE QuoteFrom(s, p + 1)

\* one or more adjacent string literals, the first opening at p; acc is the
\* text of the literals before it
RECURSIVE ParseStrings(_, _, _)
ParseStrings(s, p, acc) ==
    LET q == QuoteFrom(s, p + 1) IN
    IF q = 0 THEN ParseError
    ELSE LET text == acc \o SubSeq(s, p + 1, q - 1)
             next == SkipBlanks(s, q + 1)
         IN  IF At(s, next) = "'" THEN ParseStrings(s, next, text)
             ELSE Parsed(StrNode(text), next)

\* d[k] = v while the dict display is built: a repeated key keeps its place
\* and takes the later value
NodePut(d, k, v) ==
    LET put == IF \E i \in 1..Len(d.keys) : d.keys[i] = k
               THEN DictNode(d.keys,
                             [i \in 1..Len(d.items) |-> IF d.keys[i] = k THEN v ELSE d.items[i]])
               ELSE DictNode(Append(d.keys, k), Append(d.items, v))
    IN  [put EXCEPT !.raises = d.raises \/ v.raises]

\* a pair whose key is a list or a dict: hashing the key raises TypeError
Unhashable(d) == [d EXCEPT !.raises = TRUE]

\* the dict display so far with the pair key: value
PutPair(d, key, v) ==
    IF key.t = "str" THEN NodePut(d, key.text, v) ELSE Unhashable(d)

RECURSIVE ParseValue(_, _)
RECURSIVE ParseList(_, _, _)
RECURSIVE ParseDict(_, _, _)

\* a value that starts at or after p
ParseValue(s, p) ==
    LET start == SkipBlanks(s, p) IN
    CASE At(s, start) = "{" -> ParseDict(s, start + 1, EmptyDict)
      [] At(s, start) = "[" -> ParseList(s, start + 1, <<>>)
      [] At(s, start) = "'" -> ParseStrings(s, start, <<>>)
      [] OTHER -> ParseError

\* the rest of a list display after "[" or after a comma; acc holds the items so far
ParseList(s, p, acc) ==
    LET start == SkipBlanks(s, p) IN
    IF At(s, start) = "]" THEN Parsed(ListNode(acc), start + 1)
    ELSE LET item == ParseValue(s, start)
             after == SkipBlanks(s, item.pos)
         IN  IF ~item.ok THEN ParseError
             ELSE IF At(s, after) = "," THEN ParseList(s, after + 1, Append(acc, item.node))
             ELSE IF At(s, after) = "]" THEN Parsed(ListNode(Append(acc, item.node)), after + 1)
             ELSE ParseError

\* the rest of a dict display after "{" or after a comma; acc is the dict so far
ParseDict(s, p, acc) ==
    LET start == SkipBlanks(s, p) IN
    IF At(s, start) = "}" THEN Parsed(acc, start + 1)
    ELSE LET key == ParseValue(s, start)
             colon == SkipBlanks(s, key.pos)
             value == ParseValue(s, colon + 1)
             after == SkipBlanks(s, value.pos)
         IN  IF ~key.ok \/ At(s, colon) # ":" \/ ~value.ok THEN ParseError
             ELSE IF At(s, after) = "," THEN ParseDict(s, after + 1, PutPair(acc, key.node, value.node))
             ELSE IF At(s, after) = "}" THEN Parsed(PutPair(acc, key.node, value.node), after + 1)
             ELSE ParseError

\* lines 51-59: the parsed structure, {} when the string is not a literal; a
\* structure with raises = TRUE stands for the TypeError that leaves the function
convert_string_to_dict(string) ==
    LET top == ParseValue(string, 1) IN
    IF top.ok /\ SkipBlanks(string, top.pos) = Len(string) + 1 THEN top.node ELSE EmptyDict

\* ---- generate_hierarchy (lines 61-88); the result is the list of the paths
\* appended, in order

\* line 72: the path handed to the value of a key (this variant drops the delimiter)
ChildPath_NoDelimiter(new_path) == new_path

\* line 72: new_path + delimiter
ChildPath(new_path) == new_path \o delimiter

RECURSIVE generate_hierarchy(_, _)
RECURSIVE DictPaths(_, _, _)
RECURSIVE ListPaths(_, _, _)

\* lines 68-72: for key, value in node.items(), from the i-th pair on
DictPaths(node, i, current_path) ==
    IF i > Len(node.keys) THEN <<>>
    ELSE LET new_path == current_path \o node.keys[i] IN
         <<new_path>> \o generate_hierarchy(node.items[i], ChildPath(new_path))
                      \o DictPaths(node, i + 1, current_path)

\* lines 76-85: for item in node, from the i-th item on
ListPaths(node, i, current_path) ==
    IF i > Len(node.items) THEN <<>>
    ELSE LET item == node.items[i]
             new_path == current_path
         IN  (IF item.t \in {"dict", "list"}
              THEN generate_hierarchy(item, new_path)
              ELSE <<new_path \o item.text>>)
             \o ListPaths(node, i + 1, current_path)

generate_hierarchy(node, current_path) ==
    CASE node.t = "dict" -> DictPaths(node, 1, current_path)
      [] node.t = "list" -> ListPaths(node, 1, current_path)
      [] node.t = "str" -> <<current_path \o node.text>>

\* lines 91-96
create_hierarchy_instance(input_string) ==
    generate_hierarchy(convert_string_to_dict(input_string), <<>>)

\* ---- create_anki_tags (lines 17-36)

\* sep.join(list)
RECURSIVE Join(_, _)
Join(sep, list) ==
    IF list = <<>> THEN <<>>
    ELSE IF Len(list) = 1 THEN list[1]
    ELSE list[1] \o sep \o Join(sep, Tail(list))

\* a template is its characters after "{{" and "}}" are read as braces, with
\* each replacement field "{}" kept as one element
Field == "{}"

\* template.format(*tag_values) from the i-th element on; k fields are filled already
RECURSIVE Format(_, _, _, _)
Format(template, i, tag_values, k) ==
    IF i > Len(template) THEN <<>>
    ELSE IF template[i] = Field
         THEN tag_values[k + 1] \o Format(template, i + 1, tag_values, k + 1)
         ELSE <<template[i]>> \o Format(template, i + 1, tag_values, k)

\* input.py line 232: "{{'{}': ['{}', {{'{}': '{}'}}]}}"
TemplateHanja ==
    <<"{", "'", Field, "'", ":", " ", "[", "'", Field, "'", ",", " ",
      "{", "'", Field, "'", ":", " ", "'", Field, "'", "}", "]", "}">>

\* input.py line 241: "{{'{}': {{'{}': '{}'}}}}"
TemplateWord ==
    <<"{", "'", Field, "'", ":", " ", "{", "'", Field, "'", ":", " ", "'", Field, "'", "}", "}">>

RankKey == <<"r", "a", "n", "k">>
RefKey == <<"r", "e", "f", "e", "r", "e", "n", "c", "e", "_", "i", "d", "x">>
TagsKey == <<"t", "a", "g", "s">>

\* a value that names a field of the entry
Ref(key) == <<"{">> \o key \o <<"}">>

\* input.py line 233; the literals are written "A" and "B"
ValuesHanja == <<<<"A">>, Ref(RankKey), <<"B">>, Ref(RefKey)>>

\* input.py line 242; the literals are written "W" and "B"
ValuesWord == <<<<"W">>, <<"B">>, Ref(RefKey)>>

\* the two calls of process_hanja_txt
TagCalls == {<<TemplateHanja, ValuesHanja>>, <<TemplateWord, ValuesWord>>}

\* field texts: plain ones, one with a quote inside, one that closes the quote
\* and opens another, one that closes the list and opens a pair with a list as key
RankTexts ==
    {<<"x">>, <<"z">>, <<"a", "'", "b">>, <<"'", ",", "'">>,
     <<"'", "]", ",", "[", "]", ":", "[", "'">>}
RefTexts == {<<"y">>, <<"a", "'", "b">>}

\* the entries: each field present or absent
TagRecords == {r \o i : r \in Opt(RankKey, RankTexts), i \in Opt(RefKey, RefTexts)}

\* line 21: "{" in value and "}" in value
IsRef(value) == "{" \in Range(value) /\ "}" \in Range(value)

\* line 23: value.strip("{}")
RECURSIVE Strip(_)
Strip(value) ==
    IF value = <<>> THEN value
    ELSE IF Head(value) \in {"{", "}"} THEN Strip(Tail(value))
    ELSE IF Last(value) \in {"{", "}"} THEN Strip(Front(value))
    ELSE value

\* line 24: some value names a key that the entry lacks
KeyMissing(e, vals) ==
    \E j \in 1..Len(vals) : IsRef(vals[j]) /\ Strip(vals[j]) \notin DictKeys(e)

\* lines 19-31
TagValues(e, vals) ==
    [j \in 1..Len(vals) |-> IF IsRef(vals[j]) THEN DictGet(e, Strip(vals[j])) ELSE vals[j]]

\* line 34: the TypeError of ast.literal_eval leaves create_hierarchy_instance
TagsRaise(e, template, vals) ==
    convert_string_to_dict(Format(template, 1, TagValues(e, vals), 0)).raises

\* lines 33-35: the value stored in entry["tags"]
TagsOf(e, template, vals) ==
    LET h_str == Format(template, 1, TagValues(e, vals), 0)
        h_list == create_hierarchy_instance(h_str)
    IN  Join(<<" ">>, h_list)

TagIdle ==
    /\ tdata = <<>>
    /\ tag_template = <<>>
    /\ values = <<>>
    /\ tidx = 0
    /\ gpc = "idle"

\* the call create_anki_tags(data, tag_template, values)
TagInit ==
    /\ tdata \in SeqsUpTo(TagRecords, MaxEntries)
    /\ \E c \in TagCalls : tag_template = c[1] /\ values = c[2]
    /\ tidx = 1
    /\ gpc = "run"

\* lines 18-35: one iteration of `for entry in data`
TagEntry ==
    /\ gpc = "run"
    /\ tidx <= Len(tdata)
    /\ IF KeyMissing(tdata[tidx], values) \/ TagsRaise(tdata[tidx], tag_template, values)
       THEN /\ gpc' = "raised"
            /\ UNCHANGED <<tdata, tidx>>
       ELSE /\ tdata' = [tdata EXCEPT
                           ![tidx] = DictSet(@, TagsKey, TagsOf(@, tag_template, values))]
            /\ tidx' = tidx + 1
            /\ UNCHANGED gpc
    /\ UNCHANGED <<tag_template, values>>
    /\ UNCHANGED notTagVars

\* line 36: return data
TagReturn ==
    /\ gpc = "run"
    /\ tidx > Len(tdata)
    /\ gpc' = "done"
    /\ UNCHANGED <<tdata, tag_template, values, tidx>>
    /\ UNCHANGED notTagVars

-----------------------------------------------------------------------------
(* parse_data_by_regex and process_txt_file, src/src/components/input.py     *)
(* A text is a sequence of one-character strings; the values of a record are  *)
(* Str(text), List(texts) or NoneValue.                                       *)

MaxPatterns == 2
MaxChunks == 2

NewLine == "\n"

\* str.split(sep) for a non-empty sep: the pieces between the occurrences of
\* sep, found from the left; acc is the piece being read
RECURSIVE SplitFrom(_, _, _)
SplitFrom(text, sep, acc) ==
    IF text = <<>> THEN <<acc>>
    ELSE IF Len(text) >= Len(sep) /\ SubSeq(text, 1, Len(sep)) = sep
         THEN <<acc>> \o SplitFrom(SubSeq(text, Len(sep) + 1, Len(text)), sep, <<>>)
         ELSE SplitFrom(Tail(text), sep, Append(acc, Head(text)))

Split(text, sep) == SplitFrom(text, sep, <<>>)

\* str.strip(): blanks and line breaks removed at both ends
RECURSIVE StripText(_)
StripText(text) ==
    IF text = <<>> THEN text
    ELSE IF Head(text) \in {" ", NewLine} THEN StripText(Tail(text))
    ELSE IF Last(text) \in {" ", NewLine} THEN StripText(Front(text))
    ELSE text

\* the value of a named group that took no part in the match
NoneValue == [kind |-> "none", items |-> <<>>]

\* ---- the rules (main.py lines 9-11), by the form of their regular expression
\*   "all"     (?P<group>.*)       matches every line, the group is the line
\*   "word"    (?P<group>[\w]+)    matches a line that starts with a word
\*                                 character, the group is the longest such prefix
\*   "optword" (?P<group>[\w]+)?   matches every line, the group is the prefix
\*                                 or takes no part in the match
Rule(re, group) == [re |-> re, group |-> group]

WordChars == {"a", "b"}

RECURSIVE WordPrefix(_)
WordPrefix(line) ==
    IF line # <<>> /\ Head(line) \in WordChars
    THEN <<Head(line)>> \o WordPrefix(Tail(line))
    ELSE <<>>

\* re.match(rule, line): whether there is a match, and match.groupdict()
Match(rule, line) ==
    CASE rule.re = "all" ->
             [matched |-> TRUE, groupdict |-> <<[key |-> rule.group, value |-> Str(line)]>>]
      [] rule.re = "word" ->
             [matched |-> WordPrefix(line) # <<>>,
              groupdict |-> <<[key |-> rule.group, value |-> Str(WordPrefix(line))]>>]
      [] rule.re = "optword" ->
             [matched |-> TRUE,
              groupdict |-> <<[key |-> rule.group,
                               value |-> IF WordPrefix(line) # <<>>
                                         THEN Str(WordPrefix(line)) ELSE NoneValue]>>]

\* ---- the entries of `patterns`
\* shape "str": a rule; shape "tuple": a tuple of `size` elements, the first a
\* rule and the second a delimiter; shape "other": neither a str nor a tuple
Single(rule) == [shape |-> "str", size |-> 0, rule |-> rule, delimiter |-> <<>>]
Paired(rule, sep) == [shape |-> "tuple", size |-> 2, rule |-> rule, delimiter |-> sep]
TupleOf(n, rule, sep) == [shape |-> "tuple", size |-> n, rule |-> rule, delimiter |-> sep]
NotAPattern == [shape |-> "other", size |-> 0, rule |-> Rule("all", ""), delimiter |-> <<>>]

PatternEntries ==
    {Single(Rule("all", "words")), Single(Rule("word", "reference_idx")),
     Paired(Rule("all", "words"), <<";">>), Paired(Rule("optword", "words"), <<";">>),
     Paired(Rule("word", "reference_idx"), <<";">>),
     TupleOf(1, Rule("all", "words"), <<>>), TupleOf(3, Rule("all", "words"), <<";">>),
     NotAPattern}

\* ---- the exception a call ends with
NoError == [type |-> "", index |-> -1]
\* a ValueError of lines 35 and 45, whose message holds the index i
ValueErrorAt(i) == [type |-> "ValueError", index |-> i]
\* the ValueError of the unpacking of line 33 ("not enough values to unpack")
UnpackError == [type |-> "ValueError", index |-> -1]
\* lines[i] of lines 28 and 38 when the chunk has no line i
LineIndexError == [type |-> "IndexError", index |-> -1]
\* result[key].split of line 43 when result[key] is None
NoneSplitError == [type |-> "AttributeError", index |-> -1]

\* ---- parse_data_by_regex (lines 8-47)

\* result.update(groupdict)
RECURSIVE Update(_, _)
Update(result, groupdict) ==
    IF groupdict = <<>> THEN result
    ELSE Update(DictSet(result, Head(groupdict).key, Head(groupdict).value), Tail(groupdict))

Failed(e) == [error |-> e, result |-> <<>>]

\* lines 25-47 with a loop that ends at the first line without a match
RECURSIVE ParseFrom_StopsAtMismatch(_, _, _, _)
ParseFrom_StopsAtMismatch(lines, pats, n, result) ==
    IF n > Len(pats) THEN [error |-> NoError, result |-> result]
    ELSE LET pattern == pats[n]
             match == Match(pattern.rule, lines[n])
             merged == Update(result, match.groupdict)
             key == match.groupdict[1].key
         IN
         CASE pattern.shape = "str" ->
                  IF n > Len(lines) THEN Failed(LineIndexError)
                  ELSE IF ~match.matched THEN [error |-> NoError, result |-> result]
                  ELSE ParseFrom_StopsAtMismatch(lines, pats, n + 1, merged)
           [] pattern.shape = "tuple" ->
                  IF pattern.size < 2 THEN Failed(UnpackError)
                  ELSE IF pattern.size > 2 THEN Failed(ValueErrorAt(n - 1))
                  ELSE IF n > Len(lines) THEN Failed(LineIndexError)
                  ELSE IF ~match.matched THEN [error |-> NoError, result |-> result]
                  ELSE IF DictGet(merged, key).kind = "none" THEN Failed(NoneSplitError)
                  ELSE ParseFrom_StopsAtMismatch(lines, pats, n + 1,
                                 DictSet(merged, key,
                                         List(Split(DictGet(merged, key).items[1],
                                                    pattern.delimiter))))
           [] OTHER -> Failed(ValueErrorAt(n - 1))

\* lines 25-47: the iterations of `for i, pattern in enumerate(patterns)` from
\* the n-th entry on (the index i of the code is n - 1)
RECURSIVE ParseFrom(_, _, _, _)
ParseFrom(lines, pats, n, result) ==
    IF n > Len(pats) THEN [error |-> NoError, result |-> result]
    ELSE LET pattern == pats[n]
             match == Match(pattern.rule, lines[n])
             merged == Update(result, match.groupdict)
             key == match.groupdict[1].key
         IN
         CASE pattern.shape = "str" ->
                  IF n > Len(lines) THEN Failed(LineIndexError)
                  ELSE ParseFrom(lines, pats, n + 1, IF match.matched THEN merged ELSE result)
           [] pattern.shape = "tuple" ->
                  IF pattern.size < 2 THEN Failed(UnpackError)
                  ELSE IF pattern.size > 2 THEN Failed(ValueErrorAt(n - 1))
                  ELSE IF n > Len(lines) THEN Failed(LineIndexError)
                  ELSE IF ~match.matched THEN ParseFrom(lines, pats, n + 1, result)
                  ELSE IF DictGet(merged, key).kind = "none" THEN Failed(NoneSplitError)
                  ELSE ParseFrom(lines, pats, n + 1,
                                 DictSet(merged, key,
                                         List(Split(DictGet(merged, key).items[1],
                                                    pattern.delimiter))))
           [] OTHER -> Failed(ValueErrorAt(n - 1))

\* lines 22-23 and the loop
parse_data_by_regex(data, pats) ==
    ParseFrom(Split(StripText(data), <<NewLine>>), pats, 1, <<>>)

\* ---- process_txt_file (lines 50-79)

\* delimiter="\n\n" (line 50)
FileDelimiter == <<NewLine, NewLine>>

\* the blocks of lines the files are written with; a line is empty, a word,
\* a list of two words or a list whose first word is missing
Blocks ==
    {<<<<>>>>, <<<<"a">>>>, <<<<"a", ";", "a">>, <<"a">>>>, <<<<"a">>, <<"a", ";", "a">>>>,
     <<<<>>, <<"a">>>>, <<<<";", "a">>, <<"a">>>>}

\* the contents of the files: one block or more, a FileDelimiter between two
Contents ==
    {Join(FileDelimiter, [k \in DOMAIN bs |-> Join(<<NewLine>>, bs[k])]) :
        bs \in UNION {[1..k -> Blocks] : k \in 1..MaxChunks}}

ExtIdle ==
    /\ content = <<>>
    /\ patterns = <<>>
    /\ chunks = <<>>
    /\ cidx = 0
    /\ processed_data = <<>>
    /\ xerr = NoError
    /\ xpc = "idle"

\* lines 67-72: the file is read and split, the loop is about to start
ExtInit ==
    /\ content \in Contents
    /\ patterns \in SeqsUpTo(PatternEntries, MaxPatterns)
    /\ chunks = Split(content, FileDelimiter)
    /\ cidx = 1
    /\ processed_data = <<>>
    /\ xerr = NoError
    /\ xpc = "run"

\* lines 75-77: one iteration of `for chunk in chunks`
ParseChunk ==
    /\ xpc = "run"
    /\ cidx <= Len(chunks)
    /\ LET entry_ == parse_data_by_regex(chunks[cidx], patterns) IN
       IF entry_.error # NoError
       THEN /\ xpc' = "raised"
            /\ xerr' = entry_.error
            /\ UNCHANGED <<processed_data, cidx>>
       ELSE /\ processed_data' = Append(processed_data, entry_.result)
            /\ cidx' = cidx + 1
            /\ UNCHANGED <<xpc, xerr>>
    /\ UNCHANGED <<content, patterns, chunks>>
    /\ UNCHANGED notExtVars

\* line 79: return processed_data
ExtractReturn ==
    /\ xpc = "run"
    /\ cidx > Len(chunks)
    /\ xpc' = "done"
    /\ UNCHANGED <<content, patterns, chunks, cidx, processed_data, xerr>>
    /\ UNCHANGED notExtVars

-----------------------------------------------------------------------------
(* fetch_hanja_data and scrape_hanja, src/src/components/hanja.py, with        *)
(* is_hanja, standardize_hanja and hanja_to_url of src/src/utils/hanja_tool.py *)
(* A character is its code point; a text is a sequence of code points.         *)

MaxQueries == 2

\* hanja_ranges (hanja_tool.py lines 3-13): <<start, end>>
hanja_ranges ==
    <<<<11904, 12031>>, <<19968, 40895>>, <<63744, 64255>>, <<13312, 19903>>,
      <<131072, 173791>>, <<173824, 177983>>, <<177984, 178207>>,
      <<178208, 183983>>, <<194560, 195103>>>>

\* lines 22-28
is_hanja(char) ==
    \E r \in 1..Len(hanja_ranges) : hanja_ranges[r][1] <= char /\ char <= hanja_ranges[r][2]

\* characters: U+91D1, its compatibility form U+F90A, U+5B57, and the letter "a"
Gold == 37329
GoldVariant == 63754
Letter == 23383
LatinA == 97

\* the lines of the mapping file: a standard character and its variants
HanjaMapping == <<[standard |-> <<Gold>>, variants |-> {<<GoldVariant>>}]>>

\* lines 31-48: the standard character of the first line that lists hanja as a
\* variant, else hanja itself
standardize_hanja(hanja) ==
    IF \E l \in 1..Len(HanjaMapping) : hanja \in HanjaMapping[l].variants
    THEN HanjaMapping[CHOOSE l \in 1..Len(HanjaMapping) :
                          /\ hanja \in HanjaMapping[l].variants
                          /\ \A k \in 1..(l - 1) : hanja \notin HanjaMapping[k].variants].standard
    ELSE hanja

\* ---- the Content Source as fetch_hanja_data sees it

HanjaNone == "None"

\* the search page after get_await (line 24), which swallows a timeout:
\*   "norows"  no .row element (the wait timed out or nothing was found)
\*   "nolink"  a first row without .hanja_word .hanja_link
\*   "rows"    a first row whose link has the text `label` and leads to `id`
\*   "none"    no search was made
NoSearch == [kind |-> "none", label |-> <<>>, id |-> HanjaNone]
SearchPages ==
    {[kind |-> "norows", label |-> <<>>, id |-> HanjaNone],
     [kind |-> "nolink", label |-> <<>>, id |-> HanjaNone]}
    \cup {[kind |-> "rows", label |-> l, id |-> "id"] : l \in {<<Gold>>, <<GoldVariant>>, <<Letter>>}}

\* the detail page after get_await (line 38):
\*   "noentry"   no .component_entry element
\*   "fewinfos"  an entry with fewer .info_item elements than lines 46-59 read
\*   "complete"  an entry with every element lines 41-65 read
\*   "unopened"  the page was not requested
DetailPages == {"noentry", "fewinfos", "complete"}

\* the queries
Queries == {<<Gold>>, <<GoldVariant>>, <<Letter>>, <<LatinA>>}

\* lines 66-70 of hanja_tool.py: some character of the text is not a hanja
HasInvalidCharacter(text) ==
    \E c \in 1..Len(text) : ~is_hanja(text[c])

\* fetch_hanja_data (lines 9-79) with the pages the source answers with: the
\* exception it ends with ("" if none), the tuple returned, whether the detail
\* page was requested
fetch_hanja_data(hanja, search, detail_) ==
    LET raise(e, opened) ==
            [error |-> e, result |-> [hanja |-> hanja, id |-> HanjaNone, info |-> HanjaNone],
             opened |-> opened]
    IN
    IF HasInvalidCharacter(hanja) THEN raise("InvalidHanjaCharacterError", FALSE)
    ELSE IF search.kind = "norows" THEN raise("IndexError", FALSE)
    ELSE IF search.kind = "nolink" THEN raise("NoSuchElementException", FALSE)
    ELSE IF search.label # standardize_hanja(hanja) THEN raise("", FALSE)
    ELSE IF detail_ = "noentry" THEN raise("NoSuchElementException", TRUE)
    ELSE IF detail_ = "fewinfos" THEN raise("IndexError", TRUE)
    ELSE [error |-> "", result |-> [hanja |-> hanja, id |-> search.id, info |-> "info"],
          opened |-> TRUE]

HanjaIdle ==
    /\ hanja_list = <<>>
    /\ results = <<>>
    /\ hidx = 0
    /\ hlog = <<>>
    /\ herr = ""
    /\ hpc = "idle"

\* lines 116-129: scrape_hanja is called with a list
HanjaInit ==
    /\ hanja_list \in SeqsUpTo(Queries, MaxQueries)
    /\ results = <<>>
    /\ hidx = 1
    /\ hlog = <<>>
    /\ herr = ""
    /\ hpc = "run"

\* lines 132-138: one iteration of `for idx, hanja in enumerate(hanja_list, 1)`
FetchHanja ==
    /\ hpc = "run"
    /\ hidx <= Len(hanja_list)
    /\ \E search \in SearchPages, detail_ \in DetailPages :
           LET r == fetch_hanja_data(hanja_list[hidx], search, detail_) IN
           /\ hlog' = Append(hlog,
                  [search |-> IF HasInvalidCharacter(hanja_list[hidx]) THEN NoSearch ELSE search,
                   detail |-> IF r.opened THEN detail_ ELSE "unopened"])
           /\ IF r.error # ""
              THEN /\ hpc' = "raised"
                   /\ herr' = r.error
                   /\ UNCHANGED <<results, hidx>>
              ELSE /\ results' = Append(results, r.result)
                   /\ hidx' = hidx + 1
                   /\ UNCHANGED <<hpc, herr>>
    /\ UNCHANGED hanja_list
    /\ UNCHANGED notHanjaVars

\* lines 141-145: return results
HanjaReturn ==
    /\ hpc = "run"
    /\ hidx > Len(hanja_list)
    /\ hpc' = "done"
    /\ UNCHANGED <<hanja_list, results, hidx, hlog, herr>>
    /\ UNCHANGED notHanjaVars

-----------------------------------------------------------------------------
(* scrape_word, match_word_to_hanja and fetch_word_id,                        *)
(* src/src/components/word.py.  Texts are sequences of code points.           *)

MaxWords == 2

\* the characters "(", ")" and " "
ParenOpen == 40
ParenClose == 41
Space == 32

\* two Korean syllables, U+AE08 and U+C790, and the words made of them
Geum == 44552
Ja == 51088
WordTexts == {<<Geum>>, <<Ja>>}

\* criteria_hanja
criteria_hanja == <<Gold>>

\* sub in text
Contains(text, sub) ==
    \E p \in 1..(Len(text) - Len(sub) + 1) : SubSeq(text, p, p + Len(sub) - 1) = sub

\* text.strip() of a text without line breaks
RECURSIVE Trim(_)
Trim(text) ==
    IF text = <<>> THEN text
    ELSE IF Head(text) = Space THEN Trim(Tail(text))
    ELSE IF Last(text) = Space THEN Trim(Front(text))
    ELSE text

\* text.split("(")[0].strip()
BeforeParen(text) ==
    LET cut == IF ParenOpen \in Range(text)
               THEN (CHOOSE p \in 1..Len(text) :
                        text[p] = ParenOpen /\ \A q \in 1..(p - 1) : text[q] # ParenOpen) - 1
               ELSE Len(text)
    IN  Trim(SubSeq(text, 1, cut))

\* ---- the search page of the hanja dictionary for a word (lines 24-37)
\* entry: whether #searchPage_entry is there; rows: the candidates, each with
\* the text of .mean and of .origin a
Candidate(mean, origin) == [mean |-> mean, origin |-> origin]

OtherWord(word) == IF word = <<Geum>> THEN <<Ja>> ELSE <<Geum>>

WordSearchPages(word) ==
    {[entry |-> FALSE, rows |-> <<>>],
     [entry |-> TRUE, rows |-> <<>>],
     [entry |-> TRUE, rows |-> <<Candidate(OtherWord(word), <<Gold, Letter>>)>>],
     [entry |-> TRUE, rows |-> <<Candidate(word, <<Letter, Letter>>),
                                 Candidate(OtherWord(word), <<Gold, Letter>>)>>],
     [entry |-> TRUE, rows |-> <<Candidate(word, <<Gold, Letter>>)>>],
     [entry |-> TRUE, rows |-> <<Candidate(word, <<Gold, Letter, ParenOpen, Letter, ParenClose>>),
                                 Candidate(word, <<Letter, Gold>>)>>],
     [entry |-> TRUE, rows |-> <<Candidate(word, <<Gold, LatinA>>)>>]}

\* lines 38-56: the loop over the candidates from the i-th on; the pairs appended
RECURSIVE MatchRows(_, _, _, _)
MatchRows(hanja, word, rows, i) ==
    IF i > Len(rows) THEN <<>>
    ELSE IF rows[i].mean # word THEN <<>>
    ELSE (IF Contains(rows[i].origin, hanja)
          THEN <<[hanja |-> BeforeParen(rows[i].origin), korean |-> word, word_id |-> ""]>>
          ELSE <<>>)
         \o MatchRows(hanja, word, rows, i + 1)

\* match_word_to_hanja (lines 11-62): the exception it ends with, whether it
\* returns None, the list it returns
match_word_to_hanja(hanja, word, page) ==
    LET word_pairs == MatchRows(hanja, word, page.rows, 1) IN
    IF ~page.entry THEN [error |-> "", none |-> TRUE, pairs |-> <<>>]
    ELSE IF word_pairs # <<>> THEN [error |-> "", none |-> FALSE, pairs |-> word_pairs]
    \* line 59 reads candid_name, which only the loop assigns
    ELSE IF page.rows = <<>> THEN [error |-> "UnboundLocalError", none |-> FALSE, pairs |-> <<>>]
    ELSE [error |-> "", none |-> TRUE, pairs |-> <<>>]

\* ---- the search page of the Korean dictionary for a pair (lines 78-109)
\* entry: whether #searchPage_entry is there; rows: whether there is a .row;
\* keyword: the text of the link of the first row; id: where it leads
KoPage(entry_, rows, keyword) == [entry |-> entry_, rows |-> rows, keyword |-> keyword, id |-> "w"]

KoSearchPages(korean) ==
    {KoPage(FALSE, FALSE, <<>>),
     KoPage(TRUE, FALSE, <<>>),
     KoPage(TRUE, TRUE, korean),
     KoPage(TRUE, TRUE, korean \o <<Space, Gold>>),
     KoPage(TRUE, TRUE, OtherWord(korean))}

\* keyword.split(" ")[0]
FirstToken(keyword) ==
    IF Space \in Range(keyword)
    THEN SubSeq(keyword, 1, (CHOOSE p \in 1..Len(keyword) :
                                keyword[p] = Space /\ \A q \in 1..(p - 1) : keyword[q] # Space) - 1)
    ELSE keyword

\* fetch_word_id (lines 65-112): the exception it ends with, whether it
\* returns None, the pair it returns
fetch_word_id(word_pair, page) ==
    LET out(e, none, pair) == [error |-> e, none |-> none, pair |-> pair] IN
    IF HasInvalidCharacter(word_pair.hanja) THEN out("InvalidHanjaCharacterError", FALSE, word_pair)
    ELSE IF ~page.entry THEN out("", TRUE, word_pair)
    ELSE IF ~page.rows THEN out("IndexError", FALSE, word_pair)
    ELSE IF FirstToken(page.keyword) # word_pair.korean THEN out("", TRUE, word_pair)
    ELSE out("", FALSE,
             [word_pair EXCEPT !.korean = IF Space \in Range(page.keyword)
                                          THEN page.keyword ELSE @,
                               !.word_id = page.id])

\* how fetch_word_data(word_id, browser) ends (line 309): it returns the means
\* and examples, or raises (VisitNode above: the read of an unassigned `meaning`)
FetchOutcomes == {"", "UnboundLocalError in fetch_word_data"}

\* lines 301-316: the loop over word_pairs from the k-th pair on, with the
\* page and the fetch_word_data outcome each pair meets; the exception it ends
\* with and the items appended
RECURSIVE FetchPairs(_, _, _, _)
FetchPairs(word_pairs, k, pages, outcomes) ==
    IF k > Len(word_pairs) THEN [error |-> "", items |-> <<>>]
    ELSE LET word_item == fetch_word_id(word_pairs[k], pages[k])
             rest == FetchPairs(word_pairs, k + 1, pages, outcomes)
         IN  IF word_item.error # "" THEN [error |-> word_item.error, items |-> <<>>]
             ELSE IF word_item.none THEN rest
             ELSE IF outcomes[k] # "" THEN [error |-> outcomes[k], items |-> <<>>]
             ELSE [error |-> rest.error, items |-> <<word_item.pair>> \o rest.items]

WordIdle ==
    /\ word_list = <<>>
    /\ word_data = <<>>
    /\ widx = 0
    /\ wlog = <<>>
    /\ werr = ""
    /\ wpc = "idle"

\* lines 279-290: the arguments passed the validation, word_data = []
WordInit ==
    /\ word_list \in SeqsUpTo(WordTexts, MaxWords)
    /\ word_data = <<>>
    /\ widx = 1
    /\ wlog = <<>>
    /\ werr = ""
    /\ wpc = "run"

\* lines 293-316: one iteration of `for idx, word in enumerate(word_list, 1)`
TryWord ==
    /\ wpc = "run"
    /\ widx <= Len(word_list)
    /\ wlog' = Append(wlog, word_list[widx])
    /\ \E page \in WordSearchPages(word_list[widx]) :
           LET m == match_word_to_hanja(criteria_hanja, word_list[widx], page) IN
           \E pages \in [1..Len(m.pairs) -> KoSearchPages(word_list[widx])],
              outcomes \in [1..Len(m.pairs) -> FetchOutcomes] :
               LET f == IF m.error # "" THEN [error |-> m.error, items |-> <<>>]
                        ELSE IF m.none THEN [error |-> "", items |-> <<>>]
                        ELSE FetchPairs(m.pairs, 1, pages, outcomes)
               IN  IF f.error # ""
                   THEN /\ wpc' = "raised"
                        /\ werr' = f.error
                        /\ UNCHANGED <<word_data, widx>>
                   ELSE /\ word_data' = word_data \o f.items
                        /\ widx' = widx + 1
                        /\ UNCHANGED <<wpc, werr>>
    /\ UNCHANGED word_list
    /\ UNCHANGED notWordVars

\* lines 318-323: return word_data
WordReturn ==
    /\ wpc = "run"
    /\ widx > Len(word_list)
    /\ wpc' = "done"
    /\ UNCHANGED <<word_list, word_data, widx, wlog, werr>>
    /\ UNCHANGED notWordVars

-----------------------------------------------------------------------------
(* arrange_dict_order, src/src/components/input.py lines 171-189 *)

MaxArranged == 2
MaxKeys == 3

\* the keys a key order names; "id" may be missing from a record
OrderKeys == {"hanja", "rank", "id"}

Field_(k, v) == [key |-> k, value |-> Str(v)]

\* the entries of data: dicts with their keys in insertion order
ArrangeRecords ==
    {<<>>,
     <<Field_("hanja", "h1")>>,
     <<Field_("hanja", "h1"), Field_("rank", "1")>>,
     <<Field_("rank", "2"), Field_("tags", "t"), Field_("hanja", "h2")>>,
     <<Field_("id", "i"), Field_("hanja", "h1")>>}

\* a dict with the keys of entry that the key order names, in the order of entry
SelectInEntryOrder(entry_, order, i, acc) ==
    SelectSeq(entry_, LAMBDA f : f.key \in Range(order))

\* line 186: {key: entry[key] for key in key_order if key in entry}, from the
\* i-th key on; acc is the dict built so far
RECURSIVE SelectInKeyOrder(_, _, _, _)
SelectInKeyOrder(entry_, order, i, acc) ==
    IF i > Len(order) THEN acc
    ELSE SelectInKeyOrder(entry_, order, i + 1,
                          IF order[i] \in DictKeys(entry_)
                          THEN DictSet(acc, order[i], DictGet(entry_, order[i]))
                          ELSE acc)

ArrangeIdle ==
    /\ pdata = <<>>
    /\ key_order = <<>>
    /\ pidx = 0
    /\ arranged_data = <<>>
    /\ ppc = "idle"

\* line 182: arranged_data = []
ArrangeInit ==
    /\ pdata \in SeqsUpTo(ArrangeRecords, MaxArranged)
    /\ key_order \in SeqsUpTo(OrderKeys, MaxKeys)
    /\ pidx = 1
    /\ arranged_data = <<>>
    /\ ppc = "run"

\* lines 184-187: one iteration of `for entry in data`
ArrangeEntry ==
    /\ ppc = "run"
    /\ pidx <= Len(pdata)
    /\ arranged_data' = Append(arranged_data, SelectInKeyOrder(pdata[pidx], key_order, 1, <<>>))
    /\ pidx' = pidx + 1
    /\ UNCHANGED <<pdata, key_order, ppc>>
    /\ UNCHANGED notArrangeVars

\* line 189: return arranged_data
ArrangeReturn ==
    /\ ppc = "run"
    /\ pidx > Len(pdata)
    /\ ppc' = "done"
    /\ UNCHANGED <<pdata, key_order, pidx, arranged_data>>
    /\ UNCHANGED notArrangeVars

-----------------------------------------------------------------------------
(* hanja_to_url, src/src/utils/hanja_tool.py lines 51-73 *)

MaxText == 3
MaxLength == 3

\* the two hexadecimal digits of a byte
HexDigits == <<"0", "1", "2", "3", "4", "5", "6", "7", "8", "9", "A", "B", "C", "D", "E", "F">>
PercentByte(b) == <<"%", HexDigits[(b \div 16) + 1], HexDigits[(b % 16) + 1]>>

\* the UTF-8 bytes of a code point
Utf8(c) ==
    IF c < 128 THEN <<c>>
    ELSE IF c < 2048 THEN <<192 + (c \div 64), 128 + (c % 64)>>
    ELSE IF c < 65536 THEN <<224 + (c \div 4096), 128 + ((c \div 64) % 64), 128 + (c % 64)>>
    ELSE <<240 + (c \div 262144), 128 + ((c \div 4096) % 64),
           128 + ((c \div 64) % 64), 128 + (c % 64)>>

\* line 72: urllib.parse.quote(hanja_text, encoding="utf-8") of a text of hanja
\* characters: every byte of every character as "%XX"
RECURSIVE Quote(_)
Quote(text) ==
    IF text = <<>> THEN <<>>
    ELSE LET bytes == Utf8(Head(text)) IN
         Join(<<>>, [b \in DOMAIN bytes |-> PercentByte(bytes[b])]) \o Quote(Tail(text))

\* the texts: up to MaxText characters, hanja or not
TextsUpTo(n) == SeqsUpTo({Gold, Letter, LatinA}, n)

\* line 61: length > 0 and len(hanja_text) == length
LengthCheck(text, len) == len > 0 /\ Len(text) = len

\* lines 61-73: whether the call raises InvalidHanjaCharacterError, and the
\* text it returns
hanja_to_url(text, len) ==
    IF LengthCheck(text, len) THEN [raised |-> TRUE, url |-> <<>>]
    ELSE IF HasInvalidCharacter(text) THEN [raised |-> TRUE, url |-> <<>>]
    ELSE [raised |-> FALSE, url |-> Quote(text)]

EncodeIdle ==
    /\ hanja_text = <<>>
    /\ length = 0
    /\ url_encoded = <<>>
    /\ upc = "idle"

\* the call hanja_to_url(hanja_text, length)
EncodeInit ==
    /\ hanja_text \in TextsUpTo(MaxText)
    /\ length \in 0..MaxLength
    /\ url_encoded = <<>>
    /\ upc = "call"

\* lines 61-73
Encode ==
    /\ upc = "call"
    /\ LET r == hanja_to_url(hanja_text, length) IN
       /\ upc' = IF r.raised THEN "raised" ELSE "done"
       /\ url_encoded' = r.url
    /\ UNCHANGED <<hanja_text, length>>
    /\ UNCHANGED notEncodeVars

-----------------------------------------------------------------------------
(* SeleniumDriver.__enter__ and __exit__, src/src/utils/selenium_driver.py   *)
(* lines 28-71, as the with statements of scrape_multiple_words and           *)
(* scrape_word (src/src/components/word.py lines 335 and 289) use them.       *)

MaxDepth == 3     \* with-scopes nested on one session
MaxScopes == 4    \* with-scopes entered on one session in all

\* line 70 as an unconditional quit
ShouldQuit_Always(depth) == TRUE

\* line 70: if not self._with_depth
ShouldQuit(depth) == depth = 0

DriverIdle ==
    /\ with_depth = 0
    /\ scopes = <<>>
    /\ events = <<>>
    /\ dpc = "idle"

\* line 28 and SeleniumDriver(): a new session, no scope entered yet
DriverInit ==
    /\ with_depth = 0
    /\ scopes = <<>>
    /\ events = <<>>
    /\ dpc = "run"

\* lines 57-62: a with statement is entered on the session.  The outermost
\* scope is the with statement that creates the session; the others are
\* entered inside it.
DriverEnter ==
    /\ dpc = "run"
    /\ scopes # <<>> \/ events = <<>>
    /\ Len(scopes) < MaxDepth
    /\ Cardinality({i \in 1..Len(events) : events[i] = "enter"}) < MaxScopes
    /\ with_depth' = with_depth + 1
    /\ scopes' = Append(scopes, Cardinality({i \in 1..Len(events) : events[i] = "enter"}) + 1)
    /\ events' = Append(events, "enter")
    /\ UNCHANGED dpc
    /\ UNCHANGED notDriverVars

\* lines 64-71: the innermost scope exits, its body having ended normally or
\* by an exception; __exit__ returns None, so an exception goes on to the
\* code around the scope
DriverExit ==
    /\ dpc = "run"
    /\ scopes # <<>>
    /\ \E exc \in BOOLEAN :
          LET depth == with_depth - 1 IN
          /\ with_depth' = depth
          /\ events' = events \o <<IF exc THEN "raise" ELSE "exit">>
                               \o (IF ShouldQuit(depth) THEN <<"quit">> ELSE <<>>)
    /\ scopes' = Front(scopes)
    /\ dpc' = IF Len(scopes) = 1 THEN "done" ELSE "run"
    /\ UNCHANGED notDriverVars

-----------------------------------------------------------------------------
(* SQLiteDB.__enter__, __exit__ and run_query, src/src/utils/sqlite_utils.py  *)
(* lines 30-79.  A connection is the position of its record in conn_log.      *)

MaxNesting == 3        \* with-scopes nested on one SQLiteDB
MaxConnections == 4    \* connections opened in all

\* line 55 as connections.pop(0)
PopIndex_First(conns) == 1

\* line 55: connections.pop() takes the last element
PopIndex(conns) == Len(conns)

\* line 62: return exc_type is None
ExitReturn(exc) == ~exc

DbIdle ==
    /\ connections = <<>>
    /\ db_scopes = <<>>
    /\ conn_log = <<>>
    /\ qpc = "idle"

\* lines 21-23: the object after SQLiteDB(db_path)
DbInit ==
    /\ connections = <<>>
    /\ db_scopes = <<>>
    /\ conn_log = <<>>
    /\ qpc = "run"

\* lines 37-40: a with statement on the object is entered, by the caller
\* ("with") or by run_query (line 76), whose body enters no other scope
DbEnter ==
    /\ qpc = "run"
    /\ Len(conn_log) < MaxConnections
    /\ Len(db_scopes) < MaxNesting
    /\ db_scopes # <<>> => conn_log[Last(db_scopes)].by # "run_query"
    /\ \E by \in {"with", "run_query"} :
          conn_log' = Append(conn_log, [state |-> "open", closed |-> FALSE, scope |-> "active",
                                        by |-> by, depth |-> Len(db_scopes) + 1])
    /\ connections' = Append(connections, Len(conn_log) + 1)
    /\ db_scopes' = Append(db_scopes, Len(conn_log) + 1)
    /\ UNCHANGED qpc
    /\ UNCHANGED notDbVars

\* lines 54-62: the innermost scope exits, its body having ended normally
\* (exc_type is None) or by an exception; the with statement suppresses the
\* exception when __exit__ returns a true value
DbExit ==
    /\ qpc = "run"
    /\ db_scopes # <<>>
    /\ \E exc \in BOOLEAN :
          LET scope == Last(db_scopes)
              outcome == IF ~exc THEN "ended"
                         ELSE IF ExitReturn(exc) THEN "suppressed" ELSE "raised"
              ended == [conn_log EXCEPT ![scope].scope = outcome]
              at == PopIndex(connections)
              conn == connections[at]
          IN  IF connections # <<>>
              THEN /\ connections' = SubSeq(connections, 1, at - 1)
                                         \o SubSeq(connections, at + 1, Len(connections))
                   /\ conn_log' = [ended EXCEPT
                                     ![conn].state = IF ~exc THEN "committed" ELSE "rolled back",
                                     ![conn].closed = TRUE]
              ELSE /\ conn_log' = ended
                   /\ UNCHANGED connections
    /\ db_scopes' = Front(db_scopes)
    /\ UNCHANGED qpc
    /\ UNCHANGED notDbVars

-----------------------------------------------------------------------------
(* Specifications *)

TravNext == VisitNode \/ TravReturn

InitTraversal ==
    TravInit /\ FuseIdle /\ ModIdle /\ TagIdle /\ ExtIdle /\ HanjaIdle /\ WordIdle /\
        ArrangeIdle /\ EncodeIdle /\ DriverIdle /\ DbIdle

SpecTraversal == InitTraversal /\ [][TravNext]_vars

\* the loop is a sequential program: it takes its next step whenever it has one
FairTraversal == SpecTraversal /\ WF_vars(TravNext)

FuseNext == MergeCall

InitFusion ==
    FuseInit /\ TravIdle /\ ModIdle /\ TagIdle /\ ExtIdle /\ HanjaIdle /\ WordIdle /\
        ArrangeIdle /\ EncodeIdle /\ DriverIdle /\ DbIdle

SpecFusion == InitFusion /\ [][FuseNext]_vars

ModNext == ApplyModifier \/ ModReturn

InitModifiers ==
    ModInit /\ TravIdle /\ FuseIdle /\ TagIdle /\ ExtIdle /\ HanjaIdle /\ WordIdle /\
        ArrangeIdle /\ EncodeIdle /\ DriverIdle /\ DbIdle

SpecModifiers == InitModifiers /\ [][ModNext]_vars

TagNext == TagEntry \/ TagReturn

InitTags ==
    TagInit /\ TravIdle /\ FuseIdle /\ ModIdle /\ ExtIdle /\ HanjaIdle /\ WordIdle /\
        ArrangeIdle /\ EncodeIdle /\ DriverIdle /\ DbIdle

SpecTags == InitTags /\ [][TagNext]_vars

ExtNext == ParseChunk \/ ExtractReturn

InitExtract ==
    ExtInit /\ TravIdle /\ FuseIdle /\ ModIdle /\ TagIdle /\ HanjaIdle /\ WordIdle /\
        ArrangeIdle /\ EncodeIdle /\ DriverIdle /\ DbIdle

SpecExtract == InitExtract /\ [][ExtNext]_vars

HanjaNext == FetchHanja \/ HanjaReturn

InitHanja ==
    HanjaInit /\ TravIdle /\ FuseIdle /\ ModIdle /\ TagIdle /\ ExtIdle /\ WordIdle /\
        ArrangeIdle /\ EncodeIdle /\ DriverIdle /\ DbIdle

SpecHanja == InitHanja /\ [][HanjaNext]_vars

WordNext == TryWord \/ WordReturn

InitWords ==
    WordInit /\ TravIdle /\ FuseIdle /\ ModIdle /\ TagIdle /\ ExtIdle /\ HanjaIdle /\
        ArrangeIdle /\ EncodeIdle /\ DriverIdle /\ DbIdle

SpecWords == InitWords /\ [][WordNext]_vars

ArrangeNext == ArrangeEntry \/ ArrangeReturn

InitArrange ==
    ArrangeInit /\ TravIdle /\ FuseIdle /\ ModIdle /\ TagIdle /\ ExtIdle /\
        HanjaIdle /\ WordIdle /\ EncodeIdle /\ DriverIdle /\ DbIdle

SpecArrange == InitArrange /\ [][ArrangeNext]_vars

EncodeNext == Encode

InitEncode ==
    EncodeInit /\ TravIdle /\ FuseIdle /\ ModIdle /\ TagIdle /\ ExtIdle /\ HanjaIdle /\
        WordIdle /\ ArrangeIdle /\ DriverIdle /\ DbIdle

SpecEncode == InitEncode /\ [][EncodeNext]_vars

DriverNext == DriverEnter \/ DriverExit

InitDriver ==
    DriverInit /\ TravIdle /\ FuseIdle /\ ModIdle /\ TagIdle /\ ExtIdle /\ HanjaIdle /\
        WordIdle /\ ArrangeIdle /\ EncodeIdle /\ DbIdle

SpecDriver == InitDriver /\ [][DriverNext]_vars

DbNext == DbEnter \/ DbExit

InitDb ==
    DbInit /\ TravIdle /\ FuseIdle /\ ModIdle /\ TagIdle /\ ExtIdle /\ HanjaIdle /\
        WordIdle /\ ArrangeIdle /\ EncodeIdle /\ DriverIdle

SpecDb == InitDb /\ [][DbNext]_vars

-----
(* fetch_word_data: what a page offers, for stating the claims *)

Occurrences(s, x) == Cardinality({i \in 1..Len(s) : s[i] = x})

RECURSIVE Flatten(_)
Flatten(ss) == IF ss = <<>> THEN <<>> ELSE Head(ss) \o Flatten(Tail(ss))

\* every meaning entry of the page of node n, in page order
AllConts(n) == Flatten([i \in 1..Len(detail[n].items) |-> detail[n].items[i].conts])

IsEtymon(c) == EndsWith(c.mean, etymon_sign)

FormatMeaning(c) ==
    IF c.theme = NoTheme THEN c.mean ELSE <<"[">> \o c.theme \o <<"]", " ">> \o c.mean

\* the meanings node n offers: its entries without the reference-only ones
NodeMeanings(n) ==
    LET kept == SelectSeq(AllConts(n), LAMBDA c : ~IsEtymon(c))
    IN  [i \in 1..Len(kept) |-> FormatMeaning(kept[i])]

\* the examples node n offers: those of 3 to 9 words
NodeExamples(n) ==
    SelectSeq(Flatten([i \in 1..Len(detail[n].items) |-> detail[n].items[i].examples]),
              LAMBDA e : WordCount(e) >= 3 /\ WordCount(e) <= 9)

\* the positions in visits of the nodes that offer a meaning
MeaningVisits == {i \in 1..Len(visits) : NodeMeanings(visits[i]) # <<>>}

FirstMeaningNode == visits[CHOOSE i \in MeaningVisits : \A j \in MeaningVisits : i <= j]

-----------------------------------------------------------------------------
(* Claims about fetch_word_data *)

\* C1: during one traversal every identifier is pushed onto the frontier at most
\* once and its detail is fetched at most once, also when several nodes list it
\* or when a node lists an identifier that has already been popped.
C1_PushedAndFetchedAtMostOnce ==
    tpc # "raised" => \A n \in Ids : pushes[n] <= 1 /\ Occurrences(visits, n) <= 1

\* C2: for every finite sub-entry graph, cycles included, the loop of
\* fetch_word_data eventually ends (the frontier empties and the call returns).
C2_TraversalEnds == <>(tpc # "loop")

\* C3: the returned meanings are exactly those of one node, the first visited
\* node that offers a meaning; no later node adds to them.
C3_MeaningsFromFirstNodeOnly ==
    tpc = "done" =>
        mean_list = IF MeaningVisits = {} THEN <<>> ELSE NodeMeanings(FirstMeaningNode)

\* C4: a root without meaning entries that lists the sub-entries [a, b], of which
\* only b offers meanings, is traversed root, b, a; the call returns b's meanings
\* once and the filtered examples of root, a and b.
C4_RootListsAB ==
    /\ detail[Root].entry = "derived"
    /\ detail[Root].subs = <<"a", "b">>
    /\ AllConts(Root) = <<>>
    /\ detail["a"].entry \in {"unfetched", "none"} /\ AllConts("a") = <<>>
    /\ detail["b"].entry \in {"unfetched", "none"}
    /\ detail["b"].entry = "none" => NodeMeanings("b") # <<>>

C4_MeaningsOfBOnly ==
    (C4_RootListsAB /\ tpc # "loop") =>
        /\ tpc = "done"
        /\ visits = <<Root, "b", "a">>
        /\ mean_list = NodeMeanings("b")
        /\ example_list = NodeExamples(Root) \o NodeExamples("b") \o NodeExamples("a")

Fetched == {n \in Ids : detail[n] # NotFetched}

IsPrefix(s, t) == Len(s) <= Len(t) /\ SubSeq(t, 1, Len(s)) = s

\* a node that has meaning entries, all of them reference-only
SentinelOnly(n) ==
    AllConts(n) # <<>> /\ \A i \in 1..Len(AllConts(n)) : IsEtymon(AllConts(n)[i])

\* the filtered examples of the visits, in visit order, as far as they are recorded
VisitedExamples ==
    CapConcat(<<>>, Flatten([i \in 1..Len(visits) |-> NodeExamples(visits[i])]), MaxOut)

\* C21: a meaning entry that ends with the reference-only suffix is never among
\* the meanings; as long as the visited nodes offer only such entries the capture
\* stays open and nothing is captured; the meanings of the next visited node that
\* offers a meaning without the suffix are then taken.
C21_SentinelTreatedAsAbsent ==
    /\ \A i \in 1..Len(mean_list) : ~EndsWith(mean_list[i], etymon_sign)
    /\ (tpc \in {"loop", "done"} /\ \A n \in Fetched : NodeMeanings(n) = <<>>) =>
           ~is_meaning_fetched /\ mean_list = <<>>
    /\ (tpc \in {"loop", "done"} /\ MeaningVisits # {}) =>
           IsPrefix(NodeMeanings(FirstMeaningNode), mean_list)

C21_Witness ==
    /\ tpc = "done"
    /\ Len(visits) >= 2
    /\ SentinelOnly(visits[1])
    /\ NodeMeanings(visits[2]) # <<>>
    /\ mean_list = NodeMeanings(visits[2])

\* C22: when no visited node offers a qualifying meaning (its meaning list is
\* empty, holds only reference-only entries, or its page did not load) the call
\* returns normally, with no meanings and the examples collected; it raises nothing.
C22_NoMeaningIsNoError ==
    (tpc # "loop" /\ Len(visits) < MaxVisits /\ \A n \in Fetched : NodeMeanings(n) = <<>>) =>
        /\ tpc = "done"
        /\ mean_list = <<>>
        /\ example_list = VisitedExamples

\* C23: the returned examples are exactly the examples of the visited nodes that
\* have 3 to 9 words, in visit order, whether or not the meanings were captured
\* before the node was visited.
C23_ExamplesOfEveryVisit ==
    (tpc = "done" /\ Len(visits) < MaxVisits) => example_list = VisitedExamples

C23_Witness ==
    /\ tpc = "done"
    /\ Len(visits) = 2
    /\ NodeMeanings(visits[1]) # <<>>
    /\ NodeExamples(visits[1]) # <<>>
    /\ NodeExamples(visits[2]) # <<>>
    /\ \E i \in 1..Len(detail[visits[2]].items) :
          \E j \in 1..Len(detail[visits[2]].items[i].examples) :
              WordCount(detail[visits[2]].items[i].examples[j]) \in {2, 10}
    /\ example_list = NodeExamples(visits[1]) \o NodeExamples(visits[2])

\* C29: in every state of the loop the frontier holds no identifier twice.
C29_FrontierHasNoDuplicate ==
    \A i, j \in 1..Len(pending_ids) : pending_ids[i] = pending_ids[j] => i = j

C29_Witness ==
    /\ tpc = "loop"
    /\ Len(visits) = 2
    /\ visits[1] # visits[2]
    /\ \E x \in Range(pending_ids) \ Range(visits) :
          /\ pushes[x] = 1
          /\ \A i \in 1..2 : /\ detail[visits[i]].entry = "derived"
                              /\ x \in Range(detail[visits[i]].subs)

-----------------------------------------------------------------------------
(* Claims about merge_list_of_dicts *)

\* the positions zip pairs
Pairs == 1..Min(Len(data1), Len(data2))

Input(i) == given1[i]
Source(i) == heap[data2[i]]
Fused(i) == heap[merged_list[i]]

\* the keys pair i holds as a list in the input and that the source defines
ListKeys(i) ==
    {k \in DictKeys(Input(i)) \cap DictKeys(Source(i)) : DictGet(Input(i), k).kind = "list"}

\* C5 as stated: for every paired record whose input holds f as a sequence and
\* whose source defines f, the fused f is the sequence's first element, for every
\* such sequence, the empty one included, and the call does not raise.
C5_ListCollapsesAlways ==
    fpc # "call" =>
        /\ fpc = "done"
        /\ \A i \in Pairs : \A k \in ListKeys(i) :
              DictGet(Input(i), k).items # <<>> =>
                  DictGet(Fused(i), k) = Str(DictGet(Input(i), k).items[1])

\* C5 amended: when the call returns, every such sequence was non-empty and the
\* fused f is its first element, not the source's value; the call raises
\* (IndexError) exactly when some pair holds such a sequence that is empty.
C5_NonEmptyListCollapses ==
    /\ fpc = "done" =>
          /\ Len(merged_list) = Cardinality(Pairs)
          /\ \A i \in Pairs : \A k \in ListKeys(i) :
                /\ DictGet(Input(i), k).items # <<>>
                /\ DictGet(Fused(i), k) = Str(DictGet(Input(i), k).items[1])
    /\ fpc = "raised" <=>
          /\ fpc # "call"
          /\ \E i \in Pairs : \E k \in ListKeys(i) : DictGet(Input(i), k).items = <<>>

C5_Witness ==
    /\ fpc = "done"
    /\ \E i \in Pairs : \E k \in ListKeys(i) : Len(DictGet(Input(i), k).items) >= 2

\* C6: a call with collections of different lengths fails with an error and
\* returns no fused records, never a result built from a prefix.
C6_LengthMismatchFails ==
    (fpc # "call" /\ Len(data1) # Len(data2)) => (fpc = "raised" /\ merged_list = <<>>)

\* C7: in every fused record a source key whose input value is not a sequence has
\* the source's value, a source key absent from the input has the source's value,
\* an input key absent from the source keeps its input value, the keys are the
\* union of both key sets, and the input record object is left as it was given.
C7_FieldPrecedence ==
    fpc = "done" =>
        \A i \in Pairs :
            /\ DictKeys(Fused(i)) = DictKeys(Input(i)) \cup DictKeys(Source(i))
            /\ \A k \in DictKeys(Source(i)) :
                  (k \notin DictKeys(Input(i)) \/ DictGet(Input(i), k).kind # "list")
                      => DictGet(Fused(i), k) = DictGet(Source(i), k)
            /\ \A k \in DictKeys(Input(i)) \ DictKeys(Source(i)) :
                  DictGet(Fused(i), k) = DictGet(Input(i), k)
            /\ heap[data1[i]] = Input(i)

C7_Witness ==
    /\ fpc = "done"
    /\ \E i \in Pairs :
          /\ \E k \in DictKeys(Source(i)) \cap DictKeys(Input(i)) :
                DictGet(Input(i), k).kind = "str"
          /\ \E k \in DictKeys(Source(i)) : k \notin DictKeys(Input(i))
    /\ \E i \in Pairs : \E k \in DictKeys(Input(i)) : k \notin DictKeys(Source(i))

-----------------------------------------------------------------------------
(* Claims about apply_modifiers *)

\* C8: apply_modifiers never lets an exception raised by a modifier reach its
\* caller, whatever the modifier list and the position of the failing modifier.
C8_NoExceptionEscapes == mpc # "raised"

\* C9: when a modifier has raised on one specific record, every modifier after
\* it in the list is still invoked, and it is applied to all records unless it
\* raises itself; the call returns, the pipeline is not aborted.
C9_LaterModifiersStillRun ==
    (/\ mpc \in {"done", "raised"}
     /\ \E i \in 1..Len(mlog) : mlog[i].raised /\ mlog[i].on > 0 /\ i < Len(modifiers)) =>
        /\ mpc = "done"
        /\ Len(mlog) = Len(modifiers)
        /\ \A j \in 1..Len(mlog) : ~mlog[j].raised => mlog[j].reached = Len(mdata)

\* C24: after a modifier has raised, the working collection is the collection
\* as it was just before that modifier started: a scoped modifier that raises on
\* record k leaves nothing written in the records before k.
C24_FailedModifierLeavesNoTrace ==
    \A i \in 1..Len(mlog) : mlog[i].raised => mlog[i].after = mlog[i].before

\* the collection after one modifier that does not raise, as the claim states it
EffectOf(m, d) ==
    IF m.tuple
    THEN [i \in 1..Len(d) |->
            IF m.column \in DictKeys(d[i])
            THEN DictSet(d[i], m.column, CallFunc(m.func, DictGet(d[i], m.column)).value)
            ELSE d[i]]
    ELSE CallWhole(m.func, d).data

RECURSIVE EffectOfAll(_, _)
EffectOfAll(ms, d) == IF ms = <<>> THEN d ELSE EffectOfAll(Tail(ms), EffectOf(Head(ms), d))

NoModifierRaised == \A i \in 1..Len(mlog) : ~mlog[i].raised

\* C25: when no modifier raises, the returned collection is the one obtained by
\* applying the modifiers in the order supplied, a (function, field) modifier
\* replacing the field by function(value) in every record that has the field
\* and nothing else, a whole-collection modifier replacing the collection by
\* function(records) for the modifiers after it.
C25_ModifiersInOrder ==
    (mpc = "done" /\ NoModifierRaised /\ mlog # <<>>) =>
        mdata = EffectOfAll(modifiers, mlog[1].before)

C25_Witness ==
    /\ mpc = "done"
    /\ NoModifierRaised
    /\ Len(mlog) = 3
    /\ ~modifiers[1].tuple /\ modifiers[2].tuple /\ modifiers[3].tuple
    /\ modifiers[2] # modifiers[3]
    /\ Len(mdata) = 2
    /\ \E i, j \in 1..2 : /\ "rank" \in DictKeys(mdata[i])
                          /\ "rank" \notin DictKeys(mdata[j])
                          /\ mdata[j] = mlog[1].before[3 - j]
                          /\ mdata[i] # mlog[1].before[3 - i]
    /\ mdata # EffectOfAll(<<modifiers[1], modifiers[3], modifiers[2]>>, mlog[1].before)

\* ---- create_anki_tags

\* entry i has been through the loop body
Tagged(i) == i \in 1..Len(tdata) /\ TagsKey \in DictKeys(tdata[i])

\* a text that holds no quote, so that it stays inside the quotes of the template
Plain(text) == "'" \notin Range(text)

\* entry i is tagged by the hanja call and its two fields are plain texts, so
\* that the formatted template is the structure {'A': [rank, {'B': reference_idx}]}
HanjaStructure(i) ==
    /\ Tagged(i)
    /\ tag_template = TemplateHanja
    /\ Plain(DictGet(tdata[i], RankKey))
    /\ Plain(DictGet(tdata[i], RefKey))

\* entry i is tagged by the word call and its field is a plain text: the
\* structure {'W': {'B': reference_idx}}
WordStructure(i) ==
    /\ Tagged(i)
    /\ tag_template = TemplateWord
    /\ Plain(DictGet(tdata[i], RefKey))

\* C10 as stated: a path is generated only where a scalar terminates it, so the
\* structure {'A': [rank, {'B': reference_idx}]} gives the two paths "A" + rank
\* and "AB::" + reference_idx, and the tags field holds them joined by a blank
\* ("Ax AB::y" for rank 'x' and reference_idx 'y').
C10_PathsOnlyAtScalars ==
    \A i \in 1..Len(tdata) : HanjaStructure(i) =>
        DictGet(tdata[i], TagsKey) =
            <<"A">> \o DictGet(tdata[i], RankKey) \o <<" ">>
                \o <<"A", "B", ":", ":">> \o DictGet(tdata[i], RefKey)

\* C10 amended: a path is generated at every mapping key and wherever a scalar
\* terminates it; a key extends the path by the delimiter for all that is under
\* it and a sequence does not extend it.  {'A': [rank, {'B': reference_idx}]}
\* gives "A", "A::" + rank, "A::B", "A::B::" + reference_idx in this order
\* ("A A::x A::B A::B::y" in the tags field for 'x' and 'y'), and
\* {'W': {'B': reference_idx}} gives "W", "W::B", "W::B::" + reference_idx.
C10_PathAtEveryKey ==
    \A i \in 1..Len(tdata) :
        /\ HanjaStructure(i) =>
               DictGet(tdata[i], TagsKey) =
                   <<"A", " ">>
                       \o <<"A", ":", ":">> \o DictGet(tdata[i], RankKey) \o <<" ">>
                       \o <<"A", ":", ":", "B", " ">>
                       \o <<"A", ":", ":", "B", ":", ":">> \o DictGet(tdata[i], RefKey)
        /\ WordStructure(i) =>
               DictGet(tdata[i], TagsKey) =
                   <<"W", " ", "W", ":", ":", "B", " ">>
                       \o <<"W", ":", ":", "B", ":", ":">> \o DictGet(tdata[i], RefKey)

\* the call has returned and an entry built from {'A': ['x', {'B': 'y'}]} holds
\* the four paths
C10_Witness ==
    /\ gpc = "done"
    /\ \E i \in 1..Len(tdata) :
           /\ HanjaStructure(i)
           /\ DictGet(tdata[i], RankKey) = <<"x">>
           /\ DictGet(tdata[i], RefKey) = <<"y">>
           /\ DictGet(tdata[i], TagsKey) =
                  <<"A", " ", "A", ":", ":", "x", " ", "A", ":", ":", "B", " ",
                    "A", ":", ":", "B", ":", ":", "y">>

\* entry i lacks a field that a value in braces names
LacksField(i) == i \in 1..Len(tdata) /\ KeyMissing(tdata[i], values)

\* C11: when the call is over and an entry that lacks a referenced field stands
\* before a complete one, the call has returned the batch and every complete
\* entry, before and after the lacking one, holds a tags field.
C11_MissingFieldConfined ==
    (/\ gpc \in {"done", "raised"}
     /\ \E i, j \in 1..Len(tdata) : i < j /\ LacksField(i) /\ ~LacksField(j)) =>
        /\ gpc = "done"
        /\ \A j \in 1..Len(tdata) : ~LacksField(j) => Tagged(j)

\* the formatted template of entry i is not a literal nested structure:
\* ast.literal_eval does not return a value for it
Unparsable(i) ==
    /\ i \in 1..Len(tdata)
    /\ ~LacksField(i)
    /\ LET h_str == Format(tag_template, 1, TagValues(tdata[i], values), 0)
           top == ParseValue(h_str, 1)
       IN  ~top.ok \/ SkipBlanks(h_str, top.pos) # Len(h_str) + 1 \/ top.node.raises

\* C26: when the call is over (no entry lacking a field), an entry whose
\* formatted template cannot be parsed holds an empty tags field, the call has
\* returned, and the entries after it hold their tags.
C26_ParseFailureGivesNoTags ==
    (gpc \in {"done", "raised"} /\ \A j \in 1..Len(tdata) : ~LacksField(j)) =>
        \A i \in 1..Len(tdata) :
            Unparsable(i) =>
                /\ gpc = "done"
                /\ Tagged(i) /\ DictGet(tdata[i], TagsKey) = <<>>
                /\ \A j \in (i + 1)..Len(tdata) : Tagged(j)

\* ---- process_txt_file and parse_data_by_regex

\* a single rule or a (rule, subDelimiter) pair
WellFormed(pattern) ==
    pattern.shape = "str" \/ (pattern.shape = "tuple" /\ pattern.size = 2)

\* the call is over: it has returned or raised
ExtractOver == xpc \in {"done", "raised"}

\* C12: for a well-formed pattern list and a text that the delimiter splits into
\* N chunks, the call returns N records and record k is the record of chunk k
\* alone.  (A call that ends with the AttributeError of C13 is left to C13.)
C12_OneRecordPerChunk ==
    (/\ ExtractOver
     /\ \A i \in 1..Len(patterns) : WellFormed(patterns[i])
     /\ xerr # NoneSplitError) =>
        /\ xpc = "done"
        /\ Len(processed_data) = Len(Split(content, FileDelimiter))
        /\ \A k \in 1..Len(processed_data) :
               processed_data[k] =
                   parse_data_by_regex(Split(content, FileDelimiter)[k], patterns).result

\* C13: no call ends with the AttributeError of a paired pattern whose group
\* took no part in the match, and in every record returned the field that a
\* paired pattern captures is a sequence, whatever the other patterns capture.
C13_PairedFieldIsSequence ==
    /\ xerr # NoneSplitError
    /\ xpc = "done" =>
           \A k \in 1..Len(processed_data), i \in 1..Len(patterns) :
               (/\ patterns[i].shape = "tuple"
                /\ patterns[i].rule.group \in DictKeys(processed_data[k])) =>
                   DictGet(processed_data[k], patterns[i].rule.group).kind = "list"

\* C14: when the first ill-formed entry of the pattern list is at index i (from
\* 0), the call raises and returns no records, and the ValueError it raises
\* names index i.  (An IndexError or AttributeError raised by an entry before
\* i is left to C12 and C13.)
C14_ConfigurationErrorNamesIndex ==
    \A n \in 1..Len(patterns) :
        (/\ ExtractOver
         /\ ~WellFormed(patterns[n])
         /\ \A m \in 1..(n - 1) : WellFormed(patterns[m])) =>
            /\ xpc = "raised"
            /\ xerr.type = "ValueError" => xerr.index = n - 1

\* the lines of chunk k
LinesOf(k) == Split(StripText(chunks[k]), <<NewLine>>)

\* entry n of the pattern list is well formed and line n does not match it
NonMatching(lines, n) ==
    /\ n \in 1..Len(patterns)
    /\ n <= Len(lines)
    /\ WellFormed(patterns[n])
    /\ ~Match(patterns[n].rule, lines[n]).matched

\* the groups of the entries whose line matches
MatchedGroups(lines) ==
    {patterns[n].rule.group :
        n \in {m \in 1..Len(patterns) : Match(patterns[m].rule, lines[m]).matched}}

\* the chunks the loop has handed to parse_data_by_regex
ChunksParsed == 1..Min(cidx, Len(chunks))

\* C27: a line that does not match its pattern adds no field and raises nothing:
\* the record and the outcome after that pattern are those before it, the
\* patterns after it are applied to their own lines from there, and a record
\* returned has the fields of the matching lines only.
C27_NonMatchingLineAddsNothing ==
    \A k \in ChunksParsed, n \in 1..Len(patterns) :
        LET lines == LinesOf(k)
            before == ParseFrom(lines, SubSeq(patterns, 1, n - 1), 1, <<>>)
        IN  (NonMatching(lines, n) /\ before.error = NoError) =>
                /\ ParseFrom(lines, SubSeq(patterns, 1, n), 1, <<>>) = before
                /\ parse_data_by_regex(chunks[k], patterns)
                       = ParseFrom(lines, patterns, n + 1, before.result)
                /\ k <= Len(processed_data) =>
                       DictKeys(processed_data[k]) = MatchedGroups(lines)

\* a returned record whose first line did not match and whose second did
C27_Witness ==
    /\ xpc = "done"
    /\ Len(patterns) = 2
    /\ \E k \in 1..Len(processed_data) :
           /\ NonMatching(LinesOf(k), 1)
           /\ Match(patterns[2].rule, LinesOf(k)[2]).matched
           /\ DictKeys(processed_data[k]) = {patterns[2].rule.group}
           /\ patterns[1].rule.group # patterns[2].rule.group

\* ---- fetch_hanja_data and scrape_hanja

\* the NotFound result for a query
NotFound(hanja) == [hanja |-> hanja, id |-> HanjaNone, info |-> HanjaNone]

\* a Content Source call failed while query i was resolved: the search page
\* came without a usable first row, or the detail page that was opened came
\* without the elements read from it
SourceFailed(i) ==
    \/ hlog[i].search.kind \in {"norows", "nolink"}
    \/ hlog[i].detail \in {"noentry", "fewinfos"}

\* C15: no failure of a Content Source call reaches scrape_hanja as an
\* exception; the query it happened for gets the NotFound result.
C15_SourceFailuresBecomeNotFound ==
    /\ herr \notin {"IndexError", "NoSuchElementException"}
    /\ \A i \in 1..Len(hlog) : SourceFailed(i) =>
           i <= Len(results) /\ results[i] = NotFound(hanja_list[i])

\* the search for query i returned a first candidate whose label is the
\* normalized query
Accepted(i) ==
    /\ hlog[i].search.kind = "rows"
    /\ hlog[i].search.label = standardize_hanja(hanja_list[i])

\* C16: for every query that was searched, a resolved record is returned only
\* if the label of the first candidate equals standardize_hanja(query); in
\* every other case (query, None, None) is returned and the detail page is
\* never opened.
C16_AcceptsOnlyExactLabel ==
    \A i \in 1..Len(hlog) : hlog[i].search.kind # "none" =>
        /\ (i <= Len(results) /\ results[i].id # HanjaNone) => Accepted(i)
        /\ ~Accepted(i) =>
               /\ i <= Len(results)
               /\ results[i] = NotFound(hanja_list[i])
               /\ hlog[i].detail = "unopened"

\* C17: when the call is over it has returned one result per query, result i
\* carrying query i, resolved or with empty id and detail.
C17_ResultsAlignedWithQueries ==
    hpc \in {"done", "raised"} =>
        /\ hpc = "done"
        /\ Len(results) = Len(hanja_list)
        /\ \A i \in 1..Len(results) :
               /\ results[i].hanja = hanja_list[i]
               /\ (results[i].id = HanjaNone) = (results[i].info = HanjaNone)

\* ---- scrape_word

\* C18: when the call is over, it has returned and every word of word_list was
\* attempted, in order: a word that cannot be resolved raises nothing and
\* stops nothing.  (An exception raised inside fetch_word_data is left to C4.)
C18_EveryWordAttempted ==
    (wpc \in {"done", "raised"} /\ werr # "UnboundLocalError in fetch_word_data") =>
        /\ wpc = "done"
        /\ wlog = word_list

\* ---- arrange_dict_order

\* the position of the first occurrence of key k in the key order
FirstPosition(k) == CHOOSE i \in 1..Len(key_order) :
    key_order[i] = k /\ \A j \in 1..(i - 1) : key_order[j] # k

\* C19: every record arranged so far holds exactly the keys of key_order that
\* its source record holds, each once, in the order of key_order, each with the
\* value of the source record; once the call has returned there is one arranged
\* record per source record, in the same order, and the source is as given.
C19_ProjectionInKeyOrder ==
    /\ Len(arranged_data) <= Len(pdata)
    /\ ppc = "done" => Len(arranged_data) = Len(pdata)
    /\ \A k \in 1..Len(arranged_data) :
           LET out == arranged_data[k] IN
           /\ DictKeys(out) = Range(key_order) \cap DictKeys(pdata[k])
           /\ Cardinality(DictKeys(out)) = Len(out)
           /\ \A i, j \in 1..Len(out) :
                  i < j => FirstPosition(out[i].key) < FirstPosition(out[j].key)
           /\ \A i \in 1..Len(out) : out[i].value = DictGet(pdata[k], out[i].key)

\* the call has returned two records; the first lost a key that the order does
\* not name and had its keys reordered, the second lacks a key of the order
C19_Witness ==
    /\ ppc = "done"
    /\ key_order = <<"hanja", "id", "rank">>
    /\ pdata = <<<<Field_("rank", "2"), Field_("tags", "t"), Field_("hanja", "h2")>>,
                 <<Field_("id", "i"), Field_("hanja", "h1")>>>>
    /\ arranged_data = <<<<Field_("hanja", "h2"), Field_("rank", "2")>>,
                         <<Field_("hanja", "h1"), Field_("id", "i")>>>>

\* ---- hanja_to_url

\* C20: a call with an expected length > 0 raises when the text's length is
\* not the expected one, and returns the encoding of a text of the expected
\* length made of hanja characters only.
C20_RaisesOnWrongLength ==
    (upc \in {"done", "raised"} /\ length > 0) =>
        /\ Len(hanja_text) # length => upc = "raised"
        /\ (Len(hanja_text) = length /\ ~HasInvalidCharacter(hanja_text)) =>
               upc = "done" /\ url_encoded = Quote(hanja_text)

\* ---- SeleniumDriver

\* C28: for with-scopes properly nested on one session, the session is quit
\* exactly once, when the outermost scope exits, and never while a scope is
\* still active, whether the scopes exit normally or because of an exception.
C28_QuitOnceAtOutermostExit ==
    /\ Occurrences(events, "quit") = IF dpc = "done" THEN 1 ELSE 0
    /\ dpc = "done" => scopes = <<>> /\ Last(events) = "quit"
    /\ scopes # <<>> => Occurrences(events, "quit") = 0
    /\ (dpc = "run" /\ events # <<>>) => scopes # <<>>

\* two inner scopes in turn inside the outermost one, the first left by an exception
C28_Witness ==
    /\ dpc = "done"
    /\ events = <<"enter", "enter", "raise", "enter", "exit", "exit", "quit">>

\* ---- SQLiteDB

\* C30: each entry opens a connection of its own; each exit acts on the most
\* recently opened connection still open, which is the exiting scope's own,
\* commits it after a normal end and rolls it back after an exception, and
\* closes it in both cases; no exception is suppressed; when all scopes have
\* exited no connection is tracked.
C30_ScopesOwnTheirConnections ==
    /\ connections = db_scopes
    /\ \A i, j \in 1..Len(db_scopes) : db_scopes[i] = db_scopes[j] => i = j
    /\ \A c \in 1..Len(conn_log) :
          /\ conn_log[c].scope = "active" =>
                 c \in Range(db_scopes) /\ conn_log[c].state = "open" /\ ~conn_log[c].closed
          /\ conn_log[c].scope = "ended" =>
                 conn_log[c].state = "committed" /\ conn_log[c].closed
          /\ conn_log[c].scope = "raised" =>
                 conn_log[c].state = "rolled back" /\ conn_log[c].closed
          /\ conn_log[c].scope # "suppressed"
    /\ db_scopes = <<>> => connections = <<>>

\* all scopes have exited: a scope nested in two others was left by an
\* exception, the one around it ended normally, and run_query was used
C30_Witness ==
    /\ qpc = "run"
    /\ db_scopes = <<>>
    /\ Len(conn_log) = MaxConnections
    /\ \E c \in 2..Len(conn_log) :
          /\ conn_log[c].depth = 3 /\ conn_log[c].scope = "raised"
          /\ conn_log[c - 1].depth = 2 /\ conn_log[c - 1].scope = "ended"
    /\ \E c \in 1..Len(conn_log) : conn_log[c].by = "run_query" /\ conn_log[c].scope = "ended"

====
